---- MODULE Spec2Model ----
(***************************************************************************)
(* Quiz session manager of the Eduhub bot (startQuizSession,               *)
(* stopQuizSession, startTimer, stopTimer and the /stop handlers).         *)
(*                                                                         *)
(* The runtime is a single-threaded event loop: a handler runs without     *)
(* interruption until it suspends at an await on a Telegram call, and is   *)
(* resumed when that call returns or throws.  One action of the model is   *)
(* one such uninterrupted run: the arrival of a command, the firing of an  *)
(* interval, or the return of an awaited call, followed by everything the  *)
(* handler does up to its next await.  An awaited call that resolves       *)
(* without I/O (stopTimer with nothing to delete) only yields to the       *)
(* microtask queue, so its continuation belongs to the same action.        *)
(***************************************************************************)
EXTENDS Integers, Sequences, FiniteSets, Bags, TLC

\* ---------------------------------------------------------------- bounds
NumChats == 1
\* Sessions created per behaviour.  A behaviour in which a Telegram call fails
\* although its target exists creates one session less.
MaxSessions == 2
MaxQuestions == 3
MaxInflight == 2
MaxIds == 4
\* startTimer counts down from `secondsLeft = 30`; the model counts down
\* from this smaller start value (the countdown text is not modelled here).
SecondsLeftStart == 2
\* the per-question count of delivered polls saturates here
MaxCount == 2

\* scheduled quizzes (src/text/quizes.ts): chats, cadences in minutes,
\* interval handles, suspended invocations
NumAutoChats == 2
MaxCadence == 2
MaxAutoInflight == 2
\* a chat holds at most one handle and a new handle differs from the one just
\* cleared, so twice the number of chats is enough handles
MaxAutoIds == 2 * NumAutoChats

\* quiz schedules (quiztime module): chats and stored intervalMinutes
NumQuizChats == 2
MaxMinutes == 2

\* questions sent one at a time (quizes.ts): chats, question ids and texts,
\* questions in the catalogue, questions asked for, suspended invocations
NumRepeatChats == 1
MaxKey == 2
MaxCatalogue == 2
MaxSelect == 2
MaxRepeatInflight == 2

\* question submissions of the admin (index.ts): /add commands, the count
\* asked for, the length of a pending list, documents written, suspended
\* invocations
MaxAdds == 1
MaxRequested == 2
MaxPending == 3
MaxStore == 4
MaxSubmitInflight == 2

Chats == 1..NumChats
RChats == 1..NumRepeatChats
QChats == 1..NumQuizChats
Ids == 1..MaxIds
AChats == 1..NumAutoChats
AIds == 1..MaxAutoIds

VARIABLES
    sessions,      \* the QuizSession objects created so far, by creation order
    quizSessions,  \* Map<chatId, QuizSession>: chat -> session number, 0 = no entry
    timers,        \* countdown intervals made by startTimer: id -> [armed, owner, left]
    msgs,          \* countdown status messages that exist in their chat
    tasks,         \* suspended async invocations (a bag of records)
    faulty,        \* a Telegram call has failed although its target existed
    ev,            \* what the last step completed, for stating postconditions
    groups,        \* the store under 'groups': chat -> settings.quizInterval, 0 = none
    quizIntervals, \* Record<chatId, Timeout>: chat -> interval handle, 0 = no entry
    autoTimers,    \* interval handles of setupAutoQuiz: id -> [chat, mins] while armed
    atasks,        \* suspended invocations of the scheduled-quiz code (a bag)
    aev,           \* what the last step of the scheduled-quiz code completed
    fn,            \* a call of a pure function: its arguments and, once made, its result
    quiztime,      \* the store under 'quiztime': chat -> intervalMinutes, 0 = none
    activeIntervals, \* { [chatId]: Timeout }: chat -> [armed, mins, left]
    qtasks,        \* the suspended sendQuiz of each chat: the call it awaits
    qpending,      \* a change under 'quiztime' has not been delivered to onValue yet
    catalogue,     \* the questions that fetchQuestions returns
    lastQuestions, \* Record<chatId, string | null>: chat -> id or text, 0 = none
    rtasks,        \* suspended sendRandomQuestion, /chapter and /pyq invocations (a bag)
    lastSent,      \* chat -> the last two questions delivered to it, by id or text
    submissions,   \* the PendingQuestion objects created so far, by creation order
    pendingSubmissions, \* pendingSubmissions[ADMIN_ID]: submission number, 0 = no entry
    stasks,        \* suspended invocations of the /add and message handlers (a bag)
    store,         \* the question documents written with addDoc, in order
    sev            \* what the last step of the submission code completed

sessionVars == <<sessions, quizSessions, timers, msgs, tasks, faulty, ev>>
autoVars == <<groups, quizIntervals, autoTimers, atasks, aev>>
quizTimeVars == <<quiztime, activeIntervals, qtasks, qpending>>
repeatVars == <<catalogue, lastQuestions, rtasks, lastSent>>
submitVars == <<submissions, pendingSubmissions, stasks, store, sev>>
vars == <<sessions, quizSessions, timers, msgs, tasks, faulty, ev,
          groups, quizIntervals, autoTimers, atasks, aev, fn,
          quiztime, activeIntervals, qtasks, qpending,
          catalogue, lastQuestions, rtasks, lastSent,
          submissions, pendingSubmissions, stasks, store, sev>>

\* ------------------------------------------------------------ data shapes
\* nothing delivered yet: prev and cur hold an id or text, 0 = none
NoSent == [prev |-> 0, cur |-> 0]

\* no step of the submission code has completed
NoSEv == [op |-> "none", s |-> 0]

NoTimer == [armed |-> FALSE, owner |-> 0, left |-> 0]

\* an observation of the step just taken: op names what completed, t is the
\* invocation that completed (NoTask when the step is not one the properties
\* below speak about)
NoTask ==
    [k |-> "none", s |-> 0, c |-> 0, pc |-> "", m |-> 0, i |-> 0, q |-> 0,
     del |-> "none", raced |-> FALSE, clean |-> FALSE]

NoEv == [op |-> "none", t |-> NoTask]

Event(op, t) == [op |-> op, t |-> t]

\* const session: QuizSession = { questionIntervalId: null, timerIntervalId: null,
\*   timerMessageId: null, questions: selected, currentIndex: 0, ctx }
NewSession(c, n) ==
    [chat |-> c, n |-> n, currentIndex |-> 0,
     questionIntervalId |-> "null",      \* "null" | "armed" | "cleared"
     timerIntervalId |-> 0,              \* 0 = null, else a countdown interval id
     timerMessageId |-> 0,               \* 0 = null, else a countdown message id
     polls |-> [q \in 1..MaxQuestions |-> 0],  \* polls delivered per question (q+1)
     prev |-> 0,                         \* quizSessions.get(chatId) when it was started
     failed |-> FALSE,                   \* a sendQuestion of this session threw
     oops |-> "no",                      \* 'Oops! Failed to send a question.': "no" | "sent" | "threw"
     completed |-> FALSE,                \* a tick found currentIndex >= questions.length
     stopCalled |-> FALSE,               \* stopQuizSession has picked this session up
     stopDone |-> FALSE,                 \* such a stopQuizSession has returned
     stopRaced |-> FALSE,                \* ... one that began while a tick was suspended
     lateTimer |-> FALSE,                \* startTimer sent a countdown message after that
     stopMissed |-> FALSE]               \* a later /stop was answered 'No active quiz session to stop.'
                                         \* (recorded by StopAnswered only)

\* A suspended invocation: k = kind ("start", "stop", "tick", "cd", "cmd"),
\* s = its session, c = its chat, pc = the await it is suspended at, m = the
\* message id its delete/edit names, q = index of the question being sent.
\* A stopQuizSession also keeps i = the countdown interval it cleared, del =
\* how its deleteMessage ended ("none" | "ok" | "threw"), raced = a tick of
\* the session was suspended when it began, clean = the session was Active
\* and no interval callback of it was suspended when it began.  The handler
\* of a /stop that found no entry keeps in q the number of sessions begun
\* before it.
Task(k, s, c, pc, m, q) ==
    [k |-> k, s |-> s, c |-> c, pc |-> pc, m |-> m, i |-> 0, q |-> q,
     del |-> "none", raced |-> FALSE, clean |-> FALSE]

\* The state a step starts from, as one record; the operators below take such
\* a record and return the record after their effect, and Commit installs it.
Cur ==
    [sessions |-> sessions, quizSessions |-> quizSessions, timers |-> timers,
     msgs |-> msgs, tasks |-> tasks, ev |-> NoEv]

Commit(st) ==
    /\ sessions' = st.sessions
    /\ quizSessions' = st.quizSessions
    /\ timers' = st.timers
    /\ msgs' = st.msgs
    /\ tasks' = st.tasks
    /\ ev' = st.ev
    /\ UNCHANGED <<autoVars, fn, quizTimeVars, repeatVars, submitVars>>

\* The awaited call of t returns (ok) or throws.  A delete or an edit of a
\* message that does not exist (or of a null id) always throws; any other
\* call may throw as well.
CallReturns(t, ok) ==
    /\ BagIn(t, tasks)
    /\ IF t.pc \in {"ST_del", "del", "c_del", "s_del", "f_del", "term", "edit"}
          /\ t.m \notin msgs
       THEN ~ok /\ faulty' = faulty
       ELSE IF ok THEN faulty' = faulty
       ELSE Len(sessions) < MaxSessions /\ faulty' = TRUE

Spawn(st, t) == [st EXCEPT !.tasks = @ (+) SetToBag({t})]

Finish(st, t) == [st EXCEPT !.tasks = @ (-) SetToBag({t})]

At(st, t, pc, m) == Spawn(st, [t EXCEPT !.pc = pc, !.m = m])

Note(st, op, t) == [st EXCEPT !.ev = Event(op, t)]

\* the suspended invocations of session s
TasksOf(st, s) == {t \in BagToSet(st.tasks) : t.s = s}

InFlight == BagCardinality(tasks)

\* Ids no object and no suspended call refers to; the smallest is handed out.
UsedIds(st) ==
    {i \in Ids : st.timers[i].armed} \cup st.msgs
      \cup {st.sessions[s].timerIntervalId : s \in 1..Len(st.sessions)}
      \cup {st.sessions[s].timerMessageId : s \in 1..Len(st.sessions)}
      \cup {t.m : t \in BagToSet(st.tasks)} \cup {t.i : t \in BagToSet(st.tasks)}

FreeIds(st) == Ids \ UsedIds(st)

FreshId(st) == CHOOSE i \in FreeIds(st) : \A j \in FreeIds(st) : i <= j

\* ------------------------------------------------------------- primitives
\* clearInterval(id): a no-op on null or on an interval already cleared
clearInterval(st, id) ==
    IF id = 0 THEN st ELSE [st EXCEPT !.timers[id] = NoTimer]

\* stopTimer without its clearInterval: the field is reset, the interval lives
stopTimerSync_NoClear(st, s) == [st EXCEPT !.sessions[s].timerIntervalId = 0]

\* stopTimer up to its await:
\*   if (session.timerIntervalId) { clearInterval(...); session.timerIntervalId = null; }
stopTimerSync(st, s) ==
    [clearInterval(st, st.sessions[s].timerIntervalId)
        EXCEPT !.sessions[s].timerIntervalId = 0]

\* stopQuizSession after `await stopTimer(session)`:
\*   quizSessions.delete(chatId); await session.ctx.reply('Quiz stopped.')
stopAfterTimer(st, t) ==
    At([st EXCEPT !.quizSessions[t.c] = 0], t, "reply", t.m)

\* a stopQuizSession that keeps one current session for the whole process:
\* it stops the first chat that has a session, whatever chat it is called for
stopQuizSession_AnyChat(st, c) ==
    LET live == {d \in DOMAIN st.quizSessions : st.quizSessions[d] # 0} IN
    IF live = {} THEN st
    ELSE LET d == CHOOSE x \in live : \A y \in live : x <= y
             s == st.quizSessions[d]
             st1 == [st EXCEPT !.sessions[s].questionIntervalId =
                                   IF @ = "armed" THEN "cleared" ELSE @,
                               !.sessions[s].stopCalled = TRUE]
             st2 == stopTimerSync(st1, s)
             t == [Task("stop", s, d, "del", st.sessions[s].timerMessageId, 0)
                     EXCEPT !.i = st.sessions[s].timerIntervalId]
         IN IF t.m # 0 THEN Spawn(st2, t) ELSE stopAfterTimer(st2, t)

\* stopQuizSession(chatId) up to its first await on I/O
stopQuizSession(st, c) ==
    LET s == st.quizSessions[c] IN
    IF s = 0 THEN st
    ELSE LET st1 == [st EXCEPT !.sessions[s].questionIntervalId =
                                   IF @ = "armed" THEN "cleared" ELSE @,
                               !.sessions[s].stopCalled = TRUE]
             st2 == stopTimerSync(st1, s)
             t == [Task("stop", s, c, "del", st.sessions[s].timerMessageId, 0)
                     EXCEPT !.i = st.sessions[s].timerIntervalId,
                            !.raced = \E u \in TasksOf(st, s) : u.k = "tick",
                            !.clean = /\ st.sessions[s].questionIntervalId = "armed"
                                      /\ \A u \in TasksOf(st, s) : u.k \notin {"tick", "cd"}]
         IN IF t.m # 0 THEN Spawn(st2, t) ELSE stopAfterTimer(st2, t)

\* startTimer from `if (session.timerIntervalId) clearInterval(...)` to the
\* await on ctx.reply: the interval is cleared, the field is not reset.
startTimerClear(st, t) ==
    LET st1 == clearInterval(st, st.sessions[t.s].timerIntervalId)
    IN At([st1 EXCEPT !.sessions[t.s].lateTimer = @ \/ st.sessions[t.s].stopDone],
          t, "ST_reply", 0)

\* startTimer up to its first await
startTimer(st, t) ==
    LET m == st.sessions[t.s].timerMessageId IN
    IF m # 0 THEN At(st, t, "ST_del", m) ELSE startTimerClear(st, t)

\* session.questionIntervalId = setInterval(...); quizSessions.set(chatId, session);
\* await ctx.reply('Quiz started! ...')
armInterval(st, t) ==
    At([st EXCEPT !.sessions[t.s].questionIntervalId = "armed",
                  !.quizSessions[t.c] = t.s], t, "started", 0)

\* the interval callback's catch block up to its first await on I/O:
\*   await stopTimer(session); await ctx.reply('Oops! ...')
tickCatch(st, t) ==
    LET st1 == stopTimerSync(st, t.s)
        m == st1.sessions[t.s].timerMessageId
    IN IF m # 0 THEN At(st1, t, "f_del", m) ELSE At(st1, t, "f_reply", 0)

\* ---------------------------------------------------------------- actions
\* an interval handle that is not armed
NoInterval == [chat |-> 0, mins |-> 0]

NoAEv ==
    [op |-> "none", c |-> 0, snap |-> [c \in AChats |-> 0],
     prev |-> [c \in AChats |-> 0]]

\* nothing is stored, nothing is scheduled
InitAuto ==
    /\ groups = [c \in AChats |-> 0]
    /\ quizIntervals = [c \in AChats |-> 0]
    /\ autoTimers = [i \in AIds |-> NoInterval]
    /\ atasks = EmptyBag
    /\ aev = NoAEv

\* no call of a pure function is under way
NoFn ==
    [op |-> "none", chapters |-> <<>>, query |-> <<>>, a |-> <<>>, b |-> <<>>,
     out |-> [found |-> FALSE, ch |-> <<>>], score |-> [num |-> 0, den |-> 1]]

\* quizSessions = new Map(): no session, no interval, no message
InitSessions ==
    /\ sessions = <<>>
    /\ quizSessions = [c \in Chats |-> 0]
    /\ timers = [i \in Ids |-> NoTimer]
    /\ msgs = {}
    /\ tasks = EmptyBag
    /\ faulty = FALSE
    /\ ev = NoEv

\* an entry of activeIntervals that is absent
NoActive == [armed |-> FALSE, mins |-> 0, left |-> 0]

\* the quiztime module is loaded and nothing is stored
InitQuizTimeIdle ==
    /\ quiztime = [c \in QChats |-> 0]
    /\ activeIntervals = [c \in QChats |-> NoActive]
    /\ qtasks = [c \in QChats |-> "none"]
    /\ qpending = FALSE

\* no question has been sent by sendRandomQuestion, /chapter or /pyq
InitRepeatIdle ==
    /\ catalogue = {}
    /\ lastQuestions = [c \in RChats |-> 0]
    /\ rtasks = EmptyBag
    /\ lastSent = [c \in RChats |-> NoSent]

\* const pendingSubmissions = {}: no submission is open, nothing was written
InitSubmitIdle ==
    /\ submissions = <<>>
    /\ pendingSubmissions = 0
    /\ stasks = EmptyBag
    /\ store = <<>>
    /\ sev = NoSEv

Init ==
    /\ InitAuto
    /\ InitSessions
    /\ InitQuizTimeIdle
    /\ InitRepeatIdle
    /\ InitSubmitIdle
    /\ fn = NoFn

\* startQuizSession that stores its session before it looks at the selection
startQuizSession_StoresFirst(st, c, n) ==
    LET st1 == stopQuizSession(st, c)
        s == Len(st.sessions) + 1
        new == [NewSession(c, n) EXCEPT !.prev = st.quizSessions[c]]
        st2 == [st1 EXCEPT !.sessions = Append(@, new), !.quizSessions[c] = s]
    IN IF n = 0
       THEN Spawn(st2, Task("start", 0, c, "noq", 0, 0))
       ELSE Spawn(st2, Task("start", s, c, "send", 0, 0))

\* startQuizSession(ctx, questions, count) up to its first await, with
\* n = selected.length
startQuizSession(st, c, n) ==
    LET st1 == stopQuizSession(st, c)
        s == Len(st.sessions) + 1
        new == [NewSession(c, n) EXCEPT !.prev = st.quizSessions[c]]
    IN IF n = 0
       THEN Spawn(st1, Task("start", 0, c, "noq", 0, 0))
       ELSE Spawn([st1 EXCEPT !.sessions = Append(@, new)],
                  Task("start", s, c, "send", 0, 0))

\* a call of startQuizSession(ctx, questions, count)
StartQuizSession(c, n) ==
    /\ InFlight + (IF quizSessions[c] # 0 THEN 2 ELSE 1) <= MaxInflight
    /\ n > 0 => Len(sessions) + (IF faulty THEN 1 ELSE 0) < MaxSessions
    /\ UNCHANGED faulty
    /\ Commit(startQuizSession(Cur, c, n))

\* /stop in quizes() and the exported stopQuiz handler
StopCommand(c) ==
    /\ InFlight < MaxInflight
    /\ UNCHANGED faulty
    /\ LET t == Task("cmd", 0, c, "noact", 0, Len(sessions))
       IN IF quizSessions[c] # 0
          THEN Commit(stopQuizSession(Cur, c))
          ELSE Commit(Note(Spawn(Cur, t), "stopIdle", t))

\* the callback of session.questionIntervalId = setInterval(..., 30000)
QuestionIntervalFires(s) ==
    /\ UNCHANGED faulty
    /\ sessions[s].questionIntervalId = "armed"
    /\ InFlight < MaxInflight
    /\ LET ses == sessions[s]
           t == Task("tick", s, ses.chat, "send", 0, ses.currentIndex)
       IN IF ses.currentIndex >= ses.n
          THEN LET st1 == stopTimerSync([Cur EXCEPT !.sessions[s].completed = TRUE], s)
                   m == ses.timerMessageId
               IN Commit(IF m # 0 THEN At(st1, t, "c_del", m)
                                  ELSE At(st1, t, "c_reply", 0))
          ELSE Commit(Spawn(Cur, t))

\* the callback of session.timerIntervalId = setInterval(..., 1000):
\* secondsLeft-- and the edit it awaits (secondsLeft stops at 0 here, the
\* code keeps decrementing; every value <= 0 takes the same branch)
TimerIntervalFires(i) ==
    /\ UNCHANGED faulty
    /\ timers[i].armed
    /\ InFlight < MaxInflight
    /\ LET left == IF timers[i].left > 0 THEN timers[i].left - 1 ELSE 0
           s == timers[i].owner
           t == [Task("cd", s, sessions[s].chat,
                      IF left <= 0 THEN "term" ELSE "edit",
                      sessions[s].timerMessageId, left) EXCEPT !.i = i]
       IN Commit(Spawn([Cur EXCEPT !.timers[i].left = left], t))

\* `await sendQuestion(ctx, session.questions[session.currentIndex])` returns
\* or throws, in startQuizSession and in the interval callback
SendQuestionReturns(t, ok) ==
    /\ CallReturns(t, ok)
    /\ t.pc = "send"
    /\ LET st0 == Finish(Cur, t)
           s == t.s
       IN IF ok
          THEN LET st1 == [st0 EXCEPT
                             !.sessions[s].polls[t.q + 1] =
                                 IF @ < MaxCount THEN @ + 1 ELSE @,
                             !.sessions[s].currentIndex = @ + 1]
                   more == st1.sessions[s].currentIndex < st1.sessions[s].n
                   st2 == stopTimerSync(st1, s)
                   m == st2.sessions[s].timerMessageId
               IN Commit(IF more THEN startTimer(st1, t)
                         ELSE IF t.k = "start" THEN armInterval(st1, t)
                         ELSE IF m # 0 THEN At(st2, t, "s_del", m)
                         ELSE st2)
          ELSE LET st1 == [st0 EXCEPT !.sessions[s].failed = TRUE]
               IN Commit(IF t.k = "start" THEN At(st1, t, "oops", 0)
                                          ELSE tickCatch(st1, t))

\* startTimer: `await ctx.telegram.deleteMessage(chatId, session.timerMessageId)`
\* returns or throws (the catch only logs)
StartTimerDeleteReturns(t, ok) ==
    /\ CallReturns(t, ok)
    /\ t.pc = "ST_del"
    /\ LET st0 == Finish(Cur, t)
           st1 == IF ok THEN [st0 EXCEPT !.msgs = @ \ {t.m}] ELSE st0
       IN Commit(startTimerClear(st1, t))

\* startTimer: `await ctx.reply('Next question in 30s')` returns or throws
StartTimerReplyReturns(t, ok) ==
    /\ CallReturns(t, ok)
    /\ t.pc = "ST_reply"
    /\ LET st0 == Finish(Cur, t)
           id == FreshId(st0)
           st1 == [st0 EXCEPT !.msgs = @ \cup {id},
                              !.sessions[t.s].timerMessageId = id,
                              !.sessions[t.s].timerIntervalId = id,
                              !.timers[id] = [armed |-> TRUE, owner |-> t.s,
                                              left |-> SecondsLeftStart]]
       IN IF ok
          THEN /\ FreeIds(st0) # {}
               /\ Commit(IF t.k = "start" THEN armInterval(st1, t) ELSE st1)
          ELSE Commit(IF t.k = "start" THEN st0 ELSE tickCatch(st0, t))

\* a stopTimer without its try/catch: a deleteMessage that throws ends the
\* caller, and session.timerMessageId keeps the id
StopTimerDeleteReturns_Rethrows(t, ok) ==
    /\ CallReturns(t, ok)
    /\ t.pc \in {"del", "c_del", "s_del", "f_del"}
    /\ LET st0 == Finish(Cur, t)
           st1 == IF ok THEN [st0 EXCEPT !.msgs = @ \ {t.m}] ELSE st0
           st2 == [st1 EXCEPT !.sessions[t.s].timerMessageId = 0]
       IN Commit(CASE ~ok -> Note(st0, "cmdThrew", t)
                   [] t.pc = "del" -> stopAfterTimer(st2, [t EXCEPT !.del = "ok"])
                   [] t.pc = "c_del" -> At(st2, t, "c_reply", 0)
                   [] t.pc = "f_del" -> At(st2, t, "f_reply", 0)
                   [] OTHER -> st2)

\* stopTimer: `await session.ctx.telegram.deleteMessage(...)` returns or
\* throws, then session.timerMessageId = null and the caller goes on
StopTimerDeleteReturns(t, ok) ==
    /\ CallReturns(t, ok)
    /\ t.pc \in {"del", "c_del", "s_del", "f_del"}
    /\ LET st0 == Finish(Cur, t)
           st1 == IF ok THEN [st0 EXCEPT !.msgs = @ \ {t.m}] ELSE st0
           st2 == [st1 EXCEPT !.sessions[t.s].timerMessageId = 0]
       IN Commit(CASE t.pc = "del" ->
                        stopAfterTimer(st2, [t EXCEPT !.del = IF ok THEN "ok" ELSE "threw"])
                   [] t.pc = "c_del" -> At(st2, t, "c_reply", 0)
                   [] t.pc = "f_del" -> At(st2, t, "f_reply", 0)
                   [] OTHER -> st2)

\* stopQuizSession(chatId) called, not awaited, at the end of a handler
stopAtEnd(st, t) ==
    IF st.quizSessions[t.c] = 0 THEN Note(st, "stopNoop", t)
    ELSE stopQuizSession(st, t.c)

\* 'No active quiz session to stop.' has been sent: the sessions of the chat
\* begun before that /stop which still hold an armed dispatch interval or are
\* still inside startQuizSession were not stopped by it
stopMisses(st, t) ==
    [st EXCEPT !.sessions =
        [s \in 1..Len(st.sessions) |->
            IF /\ s <= t.q
               /\ st.sessions[s].chat = t.c
               /\ \/ st.sessions[s].questionIntervalId = "armed"
                  \/ \E u \in TasksOf(st, s) : u.k = "start"
            THEN [st.sessions[s] EXCEPT !.stopMissed = TRUE]
            ELSE st.sessions[s]]]

\* an awaited ctx.reply(text) returns or throws
ReplyReturns(t, ok) ==
    /\ CallReturns(t, ok)
    /\ t.pc \in {"noq", "oops", "started", "c_reply", "f_reply", "reply", "noact",
                "loadfail", "nomatch"}
    /\ LET st0 == Finish(Cur, t)
           told == [st0 EXCEPT !.sessions[t.s].oops = IF ok THEN "sent" ELSE "threw"]
           done == [st0 EXCEPT !.sessions[t.s].stopDone = TRUE,
                               !.sessions[t.s].stopRaced = @ \/ t.raced]
       IN Commit(
            CASE t.pc \in {"noq", "started", "loadfail", "nomatch"} -> st0
              [] t.pc \in {"oops", "f_reply"} ->
                   IF ok THEN stopAtEnd(told, t) ELSE told
              [] t.pc = "c_reply" ->
                   IF ok THEN stopAtEnd(st0, t) ELSE st0
              [] t.pc = "reply" ->
                   IF ok THEN Note(done, "stopped", t) ELSE st0
              [] OTHER ->
                   IF ok THEN st0 ELSE Note(st0, "cmdThrew", t))

\* the countdown callback's `await ctx.telegram.editMessageText(...)` returns
\* or throws; only the catch of the counting branch touches the session
EditReturns(t, ok) ==
    /\ CallReturns(t, ok)
    /\ t.pc \in {"term", "edit"}
    /\ LET st0 == Finish(Cur, t)
       IN Commit(IF t.pc = "edit" /\ ~ok
                 THEN [stopTimerSync(st0, t.s) EXCEPT !.sessions[t.s].timerMessageId = 0]
                 ELSE st0)

Next ==
    \/ \E c \in Chats, n \in 0..MaxQuestions : StartQuizSession(c, n)
    \/ \E c \in Chats : StopCommand(c)
    \/ \E s \in 1..Len(sessions) : QuestionIntervalFires(s)
    \/ \E i \in Ids : TimerIntervalFires(i)
    \/ \E t \in BagToSet(tasks), ok \in BOOLEAN : SendQuestionReturns(t, ok)
    \/ \E t \in BagToSet(tasks), ok \in BOOLEAN : StartTimerDeleteReturns(t, ok)
    \/ \E t \in BagToSet(tasks), ok \in BOOLEAN : StartTimerReplyReturns(t, ok)
    \/ \E t \in BagToSet(tasks), ok \in BOOLEAN : StopTimerDeleteReturns(t, ok)
    \/ \E t \in BagToSet(tasks), ok \in BOOLEAN : ReplyReturns(t, ok)
    \/ \E t \in BagToSet(tasks), ok \in BOOLEAN : EditReturns(t, ok)

Spec == Init /\ [][Next]_vars

\* ------------------------------------------- the /chapter and /pyq handlers
\* sessions created per behaviour of SpecCmd
MaxCmdSessions == 1

\* /chapter <name> [count] or /pyq [count] arrives: quizes() runs up to
\* `await fetchQuestions(...)`
QuizCommand(c) ==
    /\ InFlight < MaxInflight
    /\ UNCHANGED faulty
    /\ Commit(Spawn(Cur, Task("cmd", 0, c, "fetch", 0, 0)))

\* a catch block that tears the chat's session down before it reports
fetchFailed_Stops(st, t) == At(stopQuizSession(st, t.c), t, "loadfail", 0)

\* catch (err) { await ctx.reply('Oops! Failed to load questions.') }
fetchFailed(st, t) == At(st, t, "loadfail", 0)

\* fetchQuestions returns or throws.  out = "throws": the catch block;
\* out = "none": nothing to send (no questions for the subject, no matching
\* chapter), the handler replies and returns; out = "some": startQuizSession
\* is called, not awaited, with a selection of n questions.  The replies the
\* handlers await before that ('Did you mean ...') change no state and are
\* not separate steps; when one throws the catch block runs as for "throws".
FetchQuestionsReturns(t, out, n) ==
    /\ BagIn(t, tasks)
    /\ t.pc = "fetch"
    /\ UNCHANGED faulty
    /\ LET st0 == Finish(Cur, t) IN
       CASE out = "throws" -> n = 0 /\ Commit(fetchFailed(st0, t))
         [] out = "none" -> n = 0 /\ Commit(At(st0, t, "nomatch", 0))
         [] OTHER ->
              /\ InFlight - 1 + (IF quizSessions[t.c] # 0 THEN 2 ELSE 1) <= MaxInflight
              /\ n > 0 => Len(sessions) < MaxCmdSessions
              /\ Commit(startQuizSession(st0, t.c, n))

NextCmd ==
    \/ \E c \in Chats : QuizCommand(c)
    \/ \E t \in BagToSet(tasks), out \in {"throws", "none", "some"},
          n \in 0..MaxQuestions : FetchQuestionsReturns(t, out, n)
    \/ \E c \in Chats : StopCommand(c)
    \/ \E s \in 1..Len(sessions) : QuestionIntervalFires(s)
    \/ \E i \in Ids : TimerIntervalFires(i)
    \/ \E t \in BagToSet(tasks), ok \in BOOLEAN : SendQuestionReturns(t, ok)
    \/ \E t \in BagToSet(tasks), ok \in BOOLEAN : StartTimerDeleteReturns(t, ok)
    \/ \E t \in BagToSet(tasks), ok \in BOOLEAN : StartTimerReplyReturns(t, ok)
    \/ \E t \in BagToSet(tasks), ok \in BOOLEAN : StopTimerDeleteReturns(t, ok)
    \/ \E t \in BagToSet(tasks), ok \in BOOLEAN : ReplyReturns(t, ok)
    \/ \E t \in BagToSet(tasks), ok \in BOOLEAN : EditReturns(t, ok)

SpecCmd == Init /\ [][NextCmd]_vars

\* -------------------------------------- scheduled quizzes (src/text/quizes.ts)
\* The in-memory state the operators below transform.
ACur == [quizIntervals |-> quizIntervals, autoTimers |-> autoTimers, atasks |-> atasks]

ACommit(a) ==
    /\ quizIntervals' = a.quizIntervals
    /\ autoTimers' = a.autoTimers
    /\ atasks' = a.atasks
    /\ UNCHANGED <<sessionVars, fn, quizTimeVars, repeatVars, submitVars>>

\* a suspended invocation: k = "set" | "remove" (the handler of /setquiztime n,
\* /removequiztime) or "rq" (sendRandomQuestion), pc names the awaited call
ATask(k, c, pc, n) == [k |-> k, c |-> c, pc |-> pc, n |-> n]

ASpawn(a, t) == [a EXCEPT !.atasks = @ (+) SetToBag({t})]

AFinish(a, t) == [a EXCEPT !.atasks = @ (-) SetToBag({t})]

AAt(a, t, pc) == ASpawn(a, [t EXCEPT !.pc = pc])

AInFlight == BagCardinality(atasks)

FreeAutoIds == {i \in AIds : autoTimers[i] = NoInterval}

\* setInterval returns a handle that no live or just cleared interval has
newInterval(a, old) ==
    LET free == {i \in AIds : a.autoTimers[i] = NoInterval /\ i # old}
    IN CHOOSE i \in free : \A j \in free : i <= j

\* if (quizIntervals[chatId]) { clearInterval(quizIntervals[chatId]); delete quizIntervals[chatId] }
clearAutoQuiz(a, c) ==
    LET old == a.quizIntervals[c] IN
    IF old # 0
    THEN [a EXCEPT !.autoTimers[old] = NoInterval, !.quizIntervals[c] = 0]
    ELSE a

\* setupAutoQuiz that arms without clearing the recorded interval
setupAutoQuiz_NoClear(a, c, mins) ==
    LET id == newInterval(a, 0)
    IN ASpawn([a EXCEPT !.autoTimers[id] = [chat |-> c, mins |-> mins],
                        !.quizIntervals[c] = id],
              ATask("rq", c, "fetch", 0))

\* setupAutoQuiz(bot, chatId, intervalMinutes): clears the recorded interval,
\* arms and records a new one, and calls sendRandomQuestion (not awaited),
\* which runs up to `await fetchQuestions(subject)`
setupAutoQuiz(a, c, mins) ==
    LET a1 == clearAutoQuiz(a, c)
        id == newInterval(a1, a.quizIntervals[c])
    IN ASpawn([a1 EXCEPT !.autoTimers[id] = [chat |-> c, mins |-> mins],
                         !.quizIntervals[c] = id],
              ATask("rq", c, "fetch", 0))

\* a pass that stops at the first chat that has a cadence
setupEach_FirstOnly(a, snap, todo) ==
    LET hits == {c \in todo : snap[c] > 0}
    IN IF hits = {} THEN a
       ELSE LET c == CHOOSE x \in hits : \A y \in hits : x <= y
            IN setupAutoQuiz(a, c, snap[c])

RECURSIVE setupEach(_, _, _)
\* Object.entries(groups).forEach(([chatId, group]) => { if (group.settings?.quizInterval) setupAutoQuiz(...) })
setupEach(a, snap, todo) ==
    IF todo = {} THEN a
    ELSE LET c == CHOOSE x \in todo : \A y \in todo : x <= y
         IN setupEach(IF snap[c] > 0 THEN setupAutoQuiz(a, c, snap[c]) ELSE a,
                      snap, todo \ {c})

\* the callback that initializeAutoQuizzes registers with onValue
onValue(a, snap) ==
    IF \A c \in AChats : snap[c] = 0 THEN a ELSE setupEach(a, snap, AChats)

\* the store delivers its present value to the callback; it does so whenever
\* anything under 'groups' has changed, and the callback may not rely on
\* being called once per change
SnapshotDelivered ==
    /\ AInFlight + Cardinality({c \in AChats : groups[c] > 0}) <= MaxAutoInflight
    /\ Cardinality(FreeAutoIds) >= Cardinality({c \in AChats : groups[c] > 0})
    /\ ACommit(onValue(ACur, groups))
    /\ aev' = [NoAEv EXCEPT !.op = "pass", !.snap = groups, !.prev = quizIntervals]
    /\ UNCHANGED groups

\* another process writes or removes a chat's settings.quizInterval
RemoteChange(c, v) ==
    /\ groups[c] # v
    /\ groups' = [groups EXCEPT ![c] = v]
    /\ aev' = NoAEv
    /\ UNCHANGED <<quizIntervals, autoTimers, atasks, sessionVars, fn, quizTimeVars, repeatVars, submitVars>>

\* /setquiztime n (k = "set") or /removequiztime (k = "remove") arrives:
\* quizes() runs up to `await ctx.getChatMember(ctx.from.id)` in isAdmin
AdminCommand(c, k, n) ==
    /\ AInFlight < MaxAutoInflight
    /\ k = "remove" => n = 0
    /\ ACommit(ASpawn(ACur, ATask(k, c, "isAdmin", n)))
    /\ aev' = NoAEv
    /\ UNCHANGED groups

\* getChatMember returns or throws.  isAdmin is false for a member and when the
\* call throws; both command branches are then skipped, no later branch
\* matches the text, and the handler returns.
GetChatMemberReturns(t, r) ==
    /\ BagIn(t, atasks)
    /\ t.pc = "isAdmin"
    /\ UNCHANGED groups
    /\ LET a0 == AFinish(ACur, t) IN
       IF r # "admin"
       THEN /\ ACommit(a0)
            /\ aev' = [NoAEv EXCEPT !.op = "notAdmin", !.c = t.c]
       ELSE /\ aev' = NoAEv
            /\ ACommit(AAt(a0, t, IF t.k = "remove" THEN "remove"
                                  ELSE IF t.n < 1 THEN "invalid" ELSE "save"))

\* `await saveGroupSettings(...)` or `await removeGroupSettings(...)` returns or
\* throws.  The write takes effect when the call returns.  The catch block of
\* /setquiztime evaluates `CTX.reply`, which throws a ReferenceError.
StoreReturns(t, ok) ==
    /\ BagIn(t, atasks)
    /\ t.pc \in {"save", "remove"}
    /\ AInFlight < MaxAutoInflight
    /\ Cardinality(FreeAutoIds) >= 1
    /\ LET a0 == AFinish(ACur, t) IN
       CASE t.pc = "save" /\ ok ->
              /\ groups' = [groups EXCEPT ![t.c] = t.n]
              /\ aev' = NoAEv
              /\ ACommit(AAt(setupAutoQuiz(a0, t.c, t.n), t, "setreply"))
         [] t.pc = "save" /\ ~ok ->
              /\ UNCHANGED groups
              /\ aev' = [NoAEv EXCEPT !.op = "threw", !.c = t.c]
              /\ ACommit(a0)
         [] t.pc = "remove" /\ ok ->
              /\ groups' = [groups EXCEPT ![t.c] = 0]
              /\ aev' = NoAEv
              /\ ACommit(AAt(clearAutoQuiz(a0, t.c), t, "rmreply"))
         [] OTHER ->
              /\ UNCHANGED groups
              /\ aev' = NoAEv
              /\ ACommit(AAt(a0, t, "errreply"))

\* the replies of the two handlers
ReplyPcs == {"invalid", "setreply", "rmreply", "errreply"}

\* an awaited ctx.reply of the handler returns or throws
AdminReplyReturns(t, ok) ==
    /\ BagIn(t, atasks)
    /\ t.pc \in ReplyPcs
    /\ UNCHANGED groups
    /\ LET a0 == AFinish(ACur, t) IN
       CASE ok -> aev' = NoAEv /\ ACommit(a0)
         [] ~ok /\ t.pc = "rmreply" -> aev' = NoAEv /\ ACommit(AAt(a0, t, "errreply"))
         [] OTHER -> /\ aev' = [NoAEv EXCEPT !.op = "threw", !.c = t.c]
                     /\ ACommit(a0)

\* an interval armed by setupAutoQuiz fires: sendRandomQuestion(createContext(...))
\* runs up to `await fetchQuestions(subject)`
AutoIntervalFires(i) ==
    /\ autoTimers[i] # NoInterval
    /\ AInFlight < MaxAutoInflight
    /\ ACommit(ASpawn(ACur, ATask("rq", autoTimers[i].chat, "fetch", 0)))
    /\ aev' = NoAEv
    /\ UNCHANGED groups

\* sendRandomQuestion runs to its end; what it awaits after fetchQuestions
\* (replyWithPhoto, sendPoll, reply) touches none of the variables above
SendRandomQuestionReturns(t) ==
    /\ BagIn(t, atasks)
    /\ t.k = "rq"
    /\ ACommit(AFinish(ACur, t))
    /\ aev' = NoAEv
    /\ UNCHANGED groups

NextAuto ==
    \/ SnapshotDelivered
    \/ \E c \in AChats, v \in 0..MaxCadence : RemoteChange(c, v)
    \/ \E c \in AChats, k \in {"set", "remove"}, n \in 0..MaxCadence : AdminCommand(c, k, n)
    \/ \E t \in BagToSet(atasks), r \in {"admin", "member", "throws"} :
          GetChatMemberReturns(t, r)
    \/ \E t \in BagToSet(atasks), ok \in BOOLEAN : StoreReturns(t, ok)
    \/ \E t \in BagToSet(atasks), ok \in BOOLEAN : AdminReplyReturns(t, ok)
    \/ \E i \in AIds : AutoIntervalFires(i)
    \/ \E t \in BagToSet(atasks) : SendRandomQuestionReturns(t)

SpecAuto == Init /\ [][NextAuto]_vars

\* ------------------------------------ chapter matching (src/text/quizes.ts)
\* A string is a sequence of one-character strings.
MaxStrLen == 4
MaxChapters == 2
\* the arguments of getSimilarityScore are drawn up to this length
MaxScoreLen == 3

Alphabet == {"a", "b", "A", " "}

Uppers ==
    <<"A", "B", "C", "D", "E", "F", "G", "H", "I", "J", "K", "L", "M",
      "N", "O", "P", "Q", "R", "S", "T", "U", "V", "W", "X", "Y", "Z">>

Lowers ==
    <<"a", "b", "c", "d", "e", "f", "g", "h", "i", "j", "k", "l", "m",
      "n", "o", "p", "q", "r", "s", "t", "u", "v", "w", "x", "y", "z">>

\* String.prototype.toLowerCase, on the characters used here
toLowerCase(s) ==
    [i \in 1..Len(s) |->
        IF \E k \in 1..Len(Uppers) : Uppers[k] = s[i]
        THEN Lowers[CHOOSE k \in 1..Len(Uppers) : Uppers[k] = s[i]]
        ELSE s[i]]

\* String.prototype.includes
includes(h, n) ==
    \E i \in 0..(Len(h) - Len(n)) : SubSeq(h, i + 1, i + Len(n)) = n

RECURSIVE splitFrom(_, _, _, _)
\* s.split(/\s+/) from position i on: cur is the piece being read, acc the
\* pieces read; a run of white space ends a piece, also an empty one at the
\* start, and the piece after the last run is kept, also when empty
splitFrom(s, i, cur, acc) ==
    IF i > Len(s) THEN Append(acc, cur)
    ELSE IF s[i] = " "
         THEN IF i > 1 /\ s[i - 1] = " "
              THEN splitFrom(s, i + 1, cur, acc)
              ELSE splitFrom(s, i + 1, <<>>, Append(acc, cur))
         ELSE splitFrom(s, i + 1, Append(cur, s[i]), acc)

split(s) == splitFrom(s, 1, <<>>, <<>>)

Min2(x, y) == IF x <= y THEN x ELSE y

RECURSIVE levRow(_, _, _, _)
\* one row of the edit-distance table: prev is the row of the prefix of a
\* without its last character ch, acc the part of the new row computed so far
levRow(prev, ch, b, acc) ==
    LET j == Len(acc) IN
    IF j > Len(b) THEN acc
    ELSE levRow(prev, ch, b,
                Append(acc, Min2(Min2(prev[j + 1] + 1, acc[j] + 1),
                                 prev[j] + (IF ch = b[j] THEN 0 ELSE 1))))

RECURSIVE levRows(_, _, _, _)
\* the rows one after the other, each complete (Len(b) + 1 entries) before
\* the next is begun
levRows(a, b, i, prev) ==
    IF i > Len(a) THEN prev
    ELSE LET row == levRow(prev, a[i], b, <<i>>)
         IN IF Len(row) > Len(b) THEN levRows(a, b, i + 1, row) ELSE row

\* distance(a, b) of fastest-levenshtein: the Levenshtein edit distance
distance(a, b) ==
    levRows(a, b, 1, [j \in 1..(Len(b) + 1) |-> j - 1])[Len(b) + 1]

\* numbers are kept as exact fractions num/den with den > 0
Frac(n, d) == [num |-> n, den |-> d]

Gt(x, y) == x.num * y.den > y.num * x.den

Plus(x, y) == Frac(x.num * y.den + y.num * x.den, x.den * y.den)

Times(x, y) == Frac(x.num * y.num, x.den * y.den)

Max2(x, y) == IF x >= y THEN x ELSE y

\* a similarity that divides by the length of its first argument
getSimilarityScore_ByFirst(a, b) ==
    IF Max2(Len(a), Len(b)) = 0 THEN Frac(1, 1)
    ELSE Frac(Len(a) - distance(a, b), Max2(Len(a), 1))

\* a similarity without the case of two empty strings
getSimilarityScore_NoEmptyCase(a, b) ==
    Frac(Max2(Len(a), Len(b)) - distance(a, b), Max2(Len(a), Len(b)))

\* const maxLength = Math.max(a.length, b.length);
\* if (maxLength === 0) return 1.0; return (maxLength - distance(a, b)) / maxLength
getSimilarityScore(a, b) ==
    LET maxLength == Max2(Len(a), Len(b)) IN
    IF maxLength = 0 THEN Frac(1, 1)
    ELSE Frac(maxLength - distance(a, b), maxLength)

\* the result of findBestMatchingChapter: a chapter or null
Some(ch) == [found |-> TRUE, ch |-> ch]

Null == [found |-> FALSE, ch |-> <<>>]

\* ch => ch.toLowerCase() === query.toLowerCase()
isExact(ch, query) == toLowerCase(ch) = toLowerCase(query)

\* ch => ch.toLowerCase().includes(query.toLowerCase()) ||
\*       query.toLowerCase().includes(ch.toLowerCase())
isContains(ch, query) ==
    \/ includes(toLowerCase(ch), toLowerCase(query))
    \/ includes(toLowerCase(query), toLowerCase(ch))

\* Array.prototype.find as the code uses its result, hits being the positions
\* that pass the test: the first of them, and `if (m) return m` does not
\* return an empty string
find(chapters, hits) ==
    IF hits = {} THEN Null
    ELSE LET ch == chapters[CHOOSE i \in hits : \A j \in hits : i <= j]
         IN IF ch = <<>> THEN Null ELSE Some(ch)

\* query.toLowerCase().split(/\s+/).filter(w => w.length > 2)
queryWords(query) ==
    LET long(w) == Len(w) > 2 IN SelectSeq(split(toLowerCase(query)), long)

\* (overlapScore * 0.7) + (fullSimilarity * 0.3) of one chapter
totalScore(chapter, query) ==
    LET qws == queryWords(query)
        chapterWords == split(toLowerCase(chapter))
        matches(qw) == \E k \in 1..Len(chapterWords) :
                           Gt(getSimilarityScore(qw, chapterWords[k]), Frac(7, 10))
        matchingWords == SelectSeq(qws, matches)
        overlapScore == Frac(Len(matchingWords), Max2(Len(qws), 1))
        fullSimilarity == getSimilarityScore(toLowerCase(chapter), toLowerCase(query))
    IN Plus(Times(overlapScore, Frac(7, 10)), Times(fullSimilarity, Frac(3, 10)))

RECURSIVE bestFrom(_, _, _, _, _)
\* for (const chapter of chapters) { ... if (totalScore > bestScore) { bestScore = totalScore; bestMatch = chapter } }
bestFrom(chapters, query, i, bestMatch, bestScore) ==
    IF i > Len(chapters) THEN bestMatch
    ELSE LET total == totalScore(chapters[i], query) IN
         IF Gt(total, bestScore)
         THEN bestFrom(chapters, query, i + 1, Some(chapters[i]), total)
         ELSE bestFrom(chapters, query, i + 1, bestMatch, bestScore)

\* the loop started with bestScore = 0
fuzzyMatch_FromZero(chapters, query) == bestFrom(chapters, query, 1, Null, Frac(0, 1))

\* let bestMatch = null; let bestScore = 0.5; the loop; return bestMatch
fuzzyMatch(chapters, query) == bestFrom(chapters, query, 1, Null, Frac(1, 2))

\* const exactMatch = chapters.find(ch => ch.toLowerCase() === query.toLowerCase())
exactMatch(chapters, query) ==
    find(chapters, {i \in 1..Len(chapters) : isExact(chapters[i], query)})

\* the containment tier taking the last candidate that passes
containsMatch_Last(chapters, query) ==
    LET hits == {i \in 1..Len(chapters) : isContains(chapters[i], query)} IN
    IF hits = {} THEN Null
    ELSE LET ch == chapters[CHOOSE i \in hits : \A j \in hits : i >= j]
         IN IF ch = <<>> THEN Null ELSE Some(ch)

\* const containsMatch = chapters.find(ch => ch.toLowerCase().includes(...) || ...)
containsMatch(chapters, query) ==
    find(chapters, {i \in 1..Len(chapters) : isContains(chapters[i], query)})

\* the tiers with containment tried before equality
matchTiers_ContainsFirst(chapters, query) ==
    IF containsMatch(chapters, query).found THEN containsMatch(chapters, query)
    ELSE IF exactMatch(chapters, query).found THEN exactMatch(chapters, query)
    ELSE fuzzyMatch(chapters, query)

\* the tiers after the guard:
\* if (exactMatch) return exactMatch; if (containsMatch) return containsMatch; the loop
matchTiers(chapters, query) ==
    IF exactMatch(chapters, query).found THEN exactMatch(chapters, query)
    ELSE IF containsMatch(chapters, query).found THEN containsMatch(chapters, query)
    ELSE fuzzyMatch(chapters, query)

\* a resolver that looks at the head of the list only
findBestMatchingChapter_HeadOnly(chapters, query) ==
    IF query = <<>> \/ Len(chapters) = 0 THEN Null
    ELSE matchTiers(<<chapters[1]>>, query)

\* findBestMatchingChapter without its first line
findBestMatchingChapter_NoGuard(chapters, query) == matchTiers(chapters, query)

\* findBestMatchingChapter(chapters, query)
findBestMatchingChapter(chapters, query) ==
    IF query = <<>> \/ Len(chapters) = 0 THEN Null ELSE matchTiers(chapters, query)

\* the strings over Alphabet of length at most n
Strings(n) == UNION {[1..k -> Alphabet] : k \in 0..n}

\* chapter names: trimmed ones as getUniqueChapters yields them, and the empty
\* name, which getUniqueChapters filters out and the function accepts
ChapterPool ==
    {<<>>, <<"a", "b">>, <<"A", "b">>, <<"b">>, <<"a", "b", "a", "b">>,
     <<"a", "b", "a", "a">>, <<"a", " ", "b">>, <<"a", "b", "a", " ", "a">>,
     <<"b", "a", "b", " ", "a", "b", "a">>}

\* the lists of at most n distinct chapter names
ChapterLists(n) ==
    {l \in UNION {[1..k -> ChapterPool] : k \in 0..n} :
        \A i, j \in 1..Len(l) : i # j => l[i] # l[j]}

\* ['Cell Structure', 'Living World', 'Genetics']
ExampleChapters ==
    << <<"C", "e", "l", "l", " ", "S", "t", "r", "u", "c", "t", "u", "r", "e">>,
       <<"L", "i", "v", "i", "n", "g", " ", "W", "o", "r", "l", "d">>,
       <<"G", "e", "n", "e", "t", "i", "c", "s">> >>

\* 'living wrld'
LivingWrld == <<"l", "i", "v", "i", "n", "g", " ", "w", "r", "l", "d">>

\* 'Cell'
Cell == <<"C", "e", "l", "l">>

\* a call of findBestMatchingChapter or of getSimilarityScore is about to be made
InitFn ==
    /\ InitAuto
    /\ InitSessions
    /\ InitQuizTimeIdle
    /\ InitRepeatIdle
    /\ InitSubmitIdle
    /\ \/ \E l \in ChapterLists(MaxChapters), q \in Strings(MaxStrLen) :
             fn = [NoFn EXCEPT !.op = "resolve", !.chapters = l, !.query = q]
       \/ \E q \in {LivingWrld, Cell} :
             fn = [NoFn EXCEPT !.op = "resolve", !.chapters = ExampleChapters, !.query = q]
       \/ \E a, b \in Strings(MaxScoreLen) :
             fn = [NoFn EXCEPT !.op = "score", !.a = a, !.b = b]

\* findBestMatchingChapter(chapters, query) returns
Resolve ==
    /\ fn.op = "resolve"
    /\ fn' = [fn EXCEPT !.op = "resolved",
                        !.out = findBestMatchingChapter(fn.chapters, fn.query)]
    /\ UNCHANGED <<sessionVars, autoVars, quizTimeVars, repeatVars, submitVars>>

\* getSimilarityScore(a, b) returns
Score ==
    /\ fn.op = "score"
    /\ fn' = [fn EXCEPT !.op = "scored", !.score = getSimilarityScore(fn.a, fn.b)]
    /\ UNCHANGED <<sessionVars, autoVars, quizTimeVars, repeatVars, submitVars>>

NextFn == Resolve \/ Score

SpecFn == InitFn /\ [][NextFn]_vars

\* ------------------------------------------- quiz schedules (quiztime module)
\* Time advances in minutes.  An awaited call and the delivery of a snapshot
\* take less than a minute, so a minute passes only when no sendQuiz is
\* suspended and no snapshot is waiting.

\* after a restart: settings are stored, activeIntervals = {}, and onValue
\* delivers the stored data to the callback of initializeQuizSchedules
InitQuizTime ==
    /\ InitAuto
    /\ InitSessions
    /\ InitRepeatIdle
    /\ InitSubmitIdle
    /\ fn = NoFn
    /\ quiztime \in [QChats -> 0..MaxMinutes]
    /\ activeIntervals = [c \in QChats |-> NoActive]
    /\ qtasks = [c \in QChats |-> "none"]
    /\ qpending = TRUE

\* startQuizInterval(bot, chatId, intervalMinutes): the entry is cleared and a
\* new interval is armed, which first fires after mins minutes
startQuizInterval(ai, c, mins) ==
    [ai EXCEPT ![c] = [armed |-> TRUE, mins |-> mins, left |-> mins]]

\* the onValue callback of initializeQuizSchedules: if (!data) return;
\* Object.entries(data).forEach(... if (settings.intervalMinutes) startQuizInterval(...))
QuizSnapshot ==
    /\ qpending
    /\ qpending' = FALSE
    /\ activeIntervals' =
          [c \in QChats |->
              IF quiztime[c] > 0
              THEN startQuizInterval(activeIntervals, c, quiztime[c])[c]
              ELSE activeIntervals[c]]
    /\ UNCHANGED <<quiztime, qtasks, sessionVars, autoVars, fn, repeatVars, submitVars>>

\* a minute passes; every interval whose period has elapsed fires and calls
\* sendQuiz, which runs up to `await fetchQuestions()`
Minute ==
    /\ ~qpending
    /\ \A c \in QChats : qtasks[c] = "none"
    /\ \E c \in QChats : activeIntervals[c].armed
    /\ activeIntervals' =
          [c \in QChats |->
              IF ~activeIntervals[c].armed THEN activeIntervals[c]
              ELSE IF activeIntervals[c].left > 1
                   THEN [activeIntervals[c] EXCEPT !.left = @ - 1]
                   ELSE [activeIntervals[c] EXCEPT !.left = activeIntervals[c].mins]]
    /\ qtasks' =
          [c \in QChats |->
              IF activeIntervals[c].armed /\ activeIntervals[c].left <= 1
              THEN "fetch" ELSE qtasks[c]]
    /\ UNCHANGED <<quiztime, qpending, sessionVars, autoVars, fn, repeatVars, submitVars>>

\* sendQuiz: `await fetchQuestions()` returns a list (some), an empty list
\* (none) or throws; with no questions sendQuiz awaits sendMessage
FetchForQuizReturns(c, out) ==
    /\ qtasks[c] = "fetch"
    /\ qtasks' = [qtasks EXCEPT ![c] = IF out = "some" THEN "poll" ELSE "message"]
    /\ UNCHANGED <<quiztime, activeIntervals, qpending, sessionVars, autoVars, fn, repeatVars, submitVars>>

\* sendQuiz: `await ctx.telegram.sendPoll(...)` (after the optional sendPhoto)
\* returns, and `set(ref(db, 'quiztime/<chat>/lastSent'), Date.now())` is
\* called; or it throws and the catch block awaits sendMessage
SendPollReturns(c, ok) ==
    /\ qtasks[c] = "poll"
    /\ qtasks' = [qtasks EXCEPT ![c] = IF ok THEN "set" ELSE "message"]
    /\ UNCHANGED <<quiztime, activeIntervals, qpending, sessionVars, autoVars, fn, repeatVars, submitVars>>

\* sendQuiz: the write of lastSent returns; the data under 'quiztime' has
\* changed, so onValue will call the callback.  When the write throws the
\* catch block awaits sendMessage.
SetLastSentReturns(c, ok) ==
    /\ qtasks[c] = "set"
    /\ qtasks' = [qtasks EXCEPT ![c] = IF ok THEN "none" ELSE "message"]
    /\ qpending' = (qpending \/ ok)
    /\ UNCHANGED <<quiztime, activeIntervals, sessionVars, autoVars, fn, repeatVars, submitVars>>

\* sendQuiz: an awaited sendMessage returns or throws; sendQuiz ends
SendMessageReturns(c) ==
    /\ qtasks[c] = "message"
    /\ qtasks' = [qtasks EXCEPT ![c] = "none"]
    /\ UNCHANGED <<quiztime, activeIntervals, qpending, sessionVars, autoVars, fn, repeatVars, submitVars>>

NextQuizTime ==
    \/ QuizSnapshot
    \/ Minute
    \/ \E c \in QChats, out \in {"some", "none", "throws"} : FetchForQuizReturns(c, out)
    \/ \E c \in QChats, ok \in BOOLEAN : SendPollReturns(c, ok)
    \/ \E c \in QChats, ok \in BOOLEAN : SetLastSentReturns(c, ok)
    \/ \E c \in QChats : SendMessageReturns(c)

\* Every step that can be taken is taken in the end (the event loop runs every
\* ready callback and time passes), and a call that is made again and again
\* does not fail every time.
SpecQuizTime ==
    /\ InitQuizTime
    /\ [][NextQuizTime]_vars
    /\ WF_vars(NextQuizTime)
    /\ \A c \in QChats :
          /\ SF_vars(FetchForQuizReturns(c, "some"))
          /\ SF_vars(SendPollReturns(c, TRUE))
          /\ SF_vars(SetLastSentReturns(c, TRUE))

\* ------------------------------------------------------------- vocabulary
Sessions == 1..Len(sessions)

Registered(s) == sessions[s].questionIntervalId # "null"

Active(s) == sessions[s].questionIntervalId = "armed"

\* the armed countdown intervals whose callback closes over session s
ArmedTimersOf(s) == {i \in Ids : timers[i].armed /\ timers[i].owner = s}

\* no invocation of session s is suspended
Ended(s) == \A t \in BagToSet(tasks) : t.s # s

\* the sendQuestion calls of session s that have not returned
Sending(s) ==
    LET T == {t \in BagToSet(tasks) : t.s = s /\ t.pc = "send"}
    IN BagCardinality([t \in T |-> CopiesIn(t, tasks)])

\* ------------------------------------------------------------------ C1
\* C1: every chat has at most one armed question-dispatch interval.
C1_OneActivePerChat ==
    \A c \in Chats :
        Cardinality({s \in Sessions : sessions[s].chat = c /\ Active(s)}) <= 1

\* ------------------------------------------------------------------ C2
\* C2: a session started over an Active one finds the prior session's
\* dispatch interval cleared, is the registered session from its registration
\* until a stop picks it up, and ticks only after the prior session's
\* teardown (countdown message deleted, entry removed) has ended.
C2_PriorReleasedFirst ==
    \A s \in Sessions :
        LET p == sessions[s].prev IN
        p # 0 =>
          /\ ~Active(p)
          /\ (Registered(s) /\ ~sessions[s].stopCalled)
                => quizSessions[sessions[s].chat] = s
          /\ (\E t \in BagToSet(tasks) : t.k = "tick" /\ t.s = s)
                => ~(\E u \in BagToSet(tasks) :
                        u.k = "stop" /\ u.s = p /\ u.pc = "del")

\* ------------------------------------------------------------------ C3
\* C3: after a stopQuizSession that began while a tick of the session was
\* suspended has returned, the session has no dispatch interval and no
\* countdown interval armed and has sent no further countdown message.
C3_StaleCallbackHarmless ==
    \A s \in Sessions :
        (sessions[s].stopDone /\ sessions[s].stopRaced) =>
          /\ ~Active(s)
          /\ ArmedTimersOf(s) = {}
          /\ ~sessions[s].lateTimer

\* ------------------------------------------------------------------ C4
\* C4: no question of a session is delivered twice, a session that found
\* its selection exhausted has delivered each of its N questions once, and
\* once its callbacks have ended the chat is Idle again.
C4_ExactlyN ==
    \A s \in Sessions :
        /\ \A q \in 1..MaxQuestions : sessions[s].polls[q] <= 1
        /\ sessions[s].completed =>
              \A q \in 1..sessions[s].n : sessions[s].polls[q] = 1
        /\ (sessions[s].completed /\ Ended(s)) =>
              (~Active(s) /\ quizSessions[sessions[s].chat] # s)

\* ------------------------------------------------------------------ C5
\* C5: a session never has two sendQuestion calls outstanding.
C5_OneSendAtATime == \A s \in Sessions : Sending(s) <= 1

\* ------------------------------------------------------------------ C6
\* C6: once a session whose sendQuestion threw has no invocation left, the
\* failure message was sent, no dispatch interval and no countdown interval
\* of it is armed, and quizSessions does not hold it.
C6_FailureStopsSession ==
    \A s \in Sessions :
        (sessions[s].failed /\ Ended(s)) =>
          /\ sessions[s].oops = "sent"
          /\ ~Active(s)
          /\ ArmedTimersOf(s) = {}
          /\ quizSessions[sessions[s].chat] # s

\* ------------------------------------------------------------------ C7
\* C7: a session that ran out of questions or failed a dispatch has its
\* dispatch interval cleared once its callbacks have ended, also when the
\* completion or failure message could not be sent.
C7_IntervalClearedAtEnd ==
    \A s \in Sessions :
        ((sessions[s].completed \/ sessions[s].failed) /\ Ended(s)) => ~Active(s)

\* ------------------------------------------------------------------ C8
\* C8 (its safety half): when the chat of a session that was Active is Idle
\* again, no dispatch interval and no countdown interval of that session is
\* armed.
C8_IdleReleasesTimers ==
    \A s \in Sessions :
        (Registered(s) /\ quizSessions[sessions[s].chat] = 0) =>
          (~Active(s) /\ ArmedTimersOf(s) = {})

C10_StopIdleIsNoop ==
    [][ /\ (ev'.op = "stopIdle") =>
              /\ UNCHANGED <<sessions, quizSessions, timers, msgs>>
              /\ tasks' = tasks (+) SetToBag({ev'.t})
              /\ ev'.t.pc = "noact"
        /\ (ev'.op = "stopNoop") =>
              /\ UNCHANGED <<quizSessions, timers, msgs>>
              /\ \A s \in Sessions :
                    /\ sessions'[s].questionIntervalId = sessions[s].questionIntervalId
                    /\ sessions'[s].timerIntervalId = sessions[s].timerIntervalId
                    /\ sessions'[s].timerMessageId = sessions[s].timerMessageId
        /\ ev'.op # "cmdThrew" ]_vars

\* the part of C10 about state: as above without the last conjunct
C10_StopIdleChangesNothing ==
    [][ /\ (ev'.op = "stopIdle") =>
              /\ UNCHANGED <<sessions, quizSessions, timers, msgs>>
              /\ tasks' = tasks (+) SetToBag({ev'.t})
              /\ ev'.t.pc = "noact"
        /\ (ev'.op = "stopNoop") =>
              /\ UNCHANGED <<quizSessions, timers, msgs>>
              /\ \A s \in Sessions :
                    /\ sessions'[s].questionIntervalId = sessions[s].questionIntervalId
                    /\ sessions'[s].timerIntervalId = sessions[s].timerIntervalId
                    /\ sessions'[s].timerMessageId = sessions[s].timerMessageId ]_vars


\* ----------------------------------------------------------------- C11
\* C11: a startQuizSession whose selection is empty, called for a chat without
\* a session, issues the 'No questions available.' reply and changes no
\* session, interval, countdown message or quizSessions entry; neither does
\* the return of that reply.
C11_EmptySelectionStaysIdle ==
    [][\A c \in Chats :
         LET t == Task("start", 0, c, "noq", 0, 0) IN
         /\ (CopiesIn(t, tasks') > CopiesIn(t, tasks) /\ quizSessions[c] = 0) =>
               /\ UNCHANGED <<sessions, quizSessions, timers, msgs>>
               /\ tasks' = tasks (+) SetToBag({t})
         /\ (CopiesIn(t, tasks') < CopiesIn(t, tasks)) =>
               UNCHANGED <<sessions, quizSessions, timers, msgs>> ]_vars

\* the reply of an empty start is awaited in a chat that has no session
C11_Witness ==
    \E c \in Chats :
        /\ BagIn(Task("start", 0, c, "noq", 0, 0), tasks)
        /\ quizSessions[c] = 0
        /\ \A s \in Sessions : sessions[s].chat # c \/ ~Active(s)

\* ----------------------------------------------------------------- C12
\* C12: when fetchQuestions fails in the /chapter or /pyq handler, the handler
\* issues the 'Oops! Failed to load questions.' reply and no step of it (the
\* arrival of the command, the failure, the return of the reply) changes a
\* session, an interval, a countdown message or quizSessions.
C12_FetchFailureChangesNothing ==
    [][\A c \in Chats :
         LET f == Task("cmd", 0, c, "fetch", 0, 0)
             r == Task("cmd", 0, c, "loadfail", 0, 0)
         IN
         /\ (CopiesIn(f, tasks') > CopiesIn(f, tasks)) =>
               UNCHANGED <<sessions, quizSessions, timers, msgs>>
         /\ (CopiesIn(r, tasks') > CopiesIn(r, tasks)) =>
               /\ UNCHANGED <<sessions, quizSessions, timers, msgs>>
               /\ tasks' = (tasks (-) SetToBag({f})) (+) SetToBag({r})
         /\ (CopiesIn(r, tasks') < CopiesIn(r, tasks)) =>
               /\ UNCHANGED <<sessions, quizSessions, timers, msgs>>
               /\ tasks' = tasks (-) SetToBag({r}) ]_vars

\* the failure reply is awaited in a chat whose session is Active
C12_Witness ==
    \E c \in Chats :
        /\ BagIn(Task("cmd", 0, c, "loadfail", 0, 0), tasks)
        /\ quizSessions[c] # 0
        /\ sessions[quizSessions[c]].questionIntervalId = "armed"

\* ----------------------------------------------------------------- C13
\* the armed intervals of setupAutoQuiz that send to chat c
ArmedAutoOf(c) == {i \in AIds : autoTimers[i].chat = c}

\* C13: after a pass of the snapshot callback, every chat the snapshot holds
\* with a cadence has an armed auto-quiz interval and every chat the snapshot
\* does not hold has none (whoever removed its entry, and also when the
\* snapshot holds no chat at all).
C13_PassArmsPresentClearsAbsent ==
    aev.op = "pass" =>
        \A c \in AChats :
            /\ aev.snap[c] > 0 => ArmedAutoOf(c) # {}
            /\ aev.snap[c] = 0 => ArmedAutoOf(c) = {}

\* ----------------------------------------------------------------- C14
\* C14: every chat has at most one armed auto-quiz interval, and the armed
\* intervals of a chat are exactly what quizIntervals records for it.
C14_AtMostOneRecorded ==
    \A c \in AChats :
        /\ Cardinality(ArmedAutoOf(c)) <= 1
        /\ ArmedAutoOf(c) = (IF quizIntervals[c] = 0 THEN {} ELSE {quizIntervals[c]})

\* a pass over a snapshot has replaced the interval a chat already had
C14_Witness ==
    /\ aev.op = "pass"
    /\ \E c \in AChats :
          /\ aev.prev[c] # 0
          /\ aev.snap[c] > 0
          /\ quizIntervals[c] \notin {0, aev.prev[c]}
          /\ autoTimers[aev.prev[c]] = NoInterval

\* ----------------------------------------------------------------- C15
\* the replies awaited by handlers of chat c
RepliesTo(c, b) ==
    LET R == {t \in BagToSet(b) : t.c = c /\ t.pc \in ReplyPcs}
        RECURSIVE Sum(_)
        Sum(S) == IF S = {} THEN 0
                  ELSE LET t == CHOOSE x \in S : TRUE IN CopiesIn(t, b) + Sum(S \ {t})
    IN Sum(R)

\* C15: the step in which /setquiztime or /removequiztime of a caller who is
\* not an administrator is turned down issues a reply to the chat and changes
\* neither the stored settings nor the armed intervals and quizIntervals.
C15_NonAdminRejectedWithMessage ==
    [][\A c \in AChats :
         (aev'.op = "notAdmin" /\ aev'.c = c) =>
             /\ UNCHANGED <<groups, quizIntervals, autoTimers>>
             /\ RepliesTo(c, atasks') > RepliesTo(c, atasks) ]_vars

\* the part of C15 about state: turning the command down changes no settings
\* and no interval
C15_NonAdminChangesNothing ==
    [][aev'.op = "notAdmin" => UNCHANGED <<groups, quizIntervals, autoTimers>>]_vars

\* ----------------------------------------------------------------- C16
\* the awaited deleteMessage calls
DeletePcs == {"ST_del", "del", "c_del", "s_del", "f_del"}

\* session s is over: its dispatch interval is not armed and nothing of it is
\* in flight
Over(s) == ~Active(s) /\ Ended(s)

\* C16: the text an edit of the countdown message shows is the terminal text
\* or a count of at least 1 second and at most the start value; and a
\* countdown message that exists is the current one of a session that is not
\* over, or is being deleted (the message of an elapsed countdown is removed
\* when the next question has been dispatched or the session has ended).
C16_CountdownShownAndRemoved ==
    /\ \A t \in BagToSet(tasks) :
          (t.k = "cd" /\ t.pc = "edit") => t.q \in 1..SecondsLeftStart
    /\ \A m \in msgs :
          \/ \E s \in Sessions : sessions[s].timerMessageId = m /\ ~Over(s)
          \/ \E t \in BagToSet(tasks) : t.m = m /\ t.pc \in DeletePcs

\* the first half of C16 alone: no edit shows a count below 1
C16_NeverNegative ==
    \A t \in BagToSet(tasks) :
        /\ (t.k = "cd" /\ t.pc = "edit") => t.q \in 1..SecondsLeftStart
        /\ (t.k = "cd" /\ t.pc = "term") => t.q = 0

\* C16 in the behaviours in which no Telegram call fails on an existing target
C16_RemovedWithoutFaults == faulty \/ C16_CountdownShownAndRemoved

\* ----------------------------------------------------------------- C17
Indices(chapters) == 1..Len(chapters)

\* no candidate equals the query and none contains it or is contained in it
NoExactNoContains(chapters, query) ==
    \A i \in Indices(chapters) :
        ~isExact(chapters[i], query) /\ ~isContains(chapters[i], query)

\* C17: when no candidate equals the query (case-insensitively) and none
\* contains it or is contained in it, the result is a candidate whose score
\* 0.7*overlapScore + 0.3*fullSimilarity is the maximum over the list, provided
\* that maximum is strictly greater than 0.5, and null otherwise; and 'living wrld'
\* resolves to 'Living World' among ['Cell Structure', 'Living World', 'Genetics'].
C17_FuzzyReturnsMaximum ==
    (fn.op = "resolved" /\ NoExactNoContains(fn.chapters, fn.query)) =>
        LET good == {i \in Indices(fn.chapters) :
                        Gt(totalScore(fn.chapters[i], fn.query), Frac(1, 2))}
        IN /\ IF good = {} THEN fn.out = Null
              ELSE /\ fn.out.found
                   /\ \E i \in good :
                         /\ fn.out.ch = fn.chapters[i]
                         /\ \A j \in Indices(fn.chapters) :
                               ~Gt(totalScore(fn.chapters[j], fn.query),
                                   totalScore(fn.chapters[i], fn.query))
           /\ (fn.chapters = ExampleChapters /\ fn.query = LivingWrld) =>
                 fn.out = Some(ExampleChapters[2])

\* the fuzzy tier has preferred the second candidate to the first, which
\* scores less
C17_Witness ==
    /\ fn.op = "resolved"
    /\ NoExactNoContains(fn.chapters, fn.query)
    /\ Len(fn.chapters) = 2
    /\ fn.out = Some(fn.chapters[2])
    /\ Gt(totalScore(fn.chapters[2], fn.query), totalScore(fn.chapters[1], fn.query))

\* the fuzzy tier has turned down a list whose best score is positive
C17_WitnessBelowThreshold ==
    /\ fn.op = "resolved"
    /\ NoExactNoContains(fn.chapters, fn.query)
    /\ \E i \in Indices(fn.chapters) :
          Gt(totalScore(fn.chapters[i], fn.query), Frac(0, 1))
    /\ fn.out = Null

\* 'living wrld' has been resolved
C17_WitnessExample ==
    /\ fn.op = "resolved"
    /\ fn.chapters = ExampleChapters
    /\ fn.query = LivingWrld
    /\ fn.out = Some(ExampleChapters[2])

\* ----------------------------------------------------------------- C18
\* the first candidate, in list order, that contains the query or is contained
\* in it
FirstContaining(chapters, query) ==
    LET hits == {i \in Indices(chapters) : isContains(chapters[i], query)}
    IN chapters[CHOOSE i \in hits : \A j \in hits : i <= j]

\* C18: when no candidate equals the query (case-insensitively) and some
\* candidate contains the query or is contained in it, the result is the first
\* such candidate in list order; 'Cell' resolves to 'Cell Structure'.
C18_ContainsReturnsFirst ==
    (/\ fn.op = "resolved"
     /\ \A i \in Indices(fn.chapters) : ~isExact(fn.chapters[i], fn.query)
     /\ \E i \in Indices(fn.chapters) : isContains(fn.chapters[i], fn.query)) =>
        /\ fn.out = Some(FirstContaining(fn.chapters, fn.query))
        /\ (fn.chapters = ExampleChapters /\ fn.query = Cell) =>
              fn.out = Some(ExampleChapters[1])

\* C18 amended: the same for a query that is not empty and a list without
\* the empty name.
C18_ContainsReturnsFirstAmended ==
    (/\ fn.op = "resolved"
     /\ fn.query # <<>>
     /\ \A i \in Indices(fn.chapters) : fn.chapters[i] # <<>>
     /\ \A i \in Indices(fn.chapters) : ~isExact(fn.chapters[i], fn.query)
     /\ \E i \in Indices(fn.chapters) : isContains(fn.chapters[i], fn.query)) =>
        /\ fn.out = Some(FirstContaining(fn.chapters, fn.query))
        /\ (fn.chapters = ExampleChapters /\ fn.query = Cell) =>
              fn.out = Some(ExampleChapters[1])

\* both candidates of a list contain the query, and the first is the result
C18_Witness ==
    /\ fn.op = "resolved"
    /\ fn.query # <<>>
    /\ Len(fn.chapters) = 2
    /\ \A i \in Indices(fn.chapters) :
          /\ fn.chapters[i] # <<>>
          /\ ~isExact(fn.chapters[i], fn.query)
          /\ isContains(fn.chapters[i], fn.query)
    /\ fn.out = Some(fn.chapters[1])

\* 'Cell' has been resolved
C18_WitnessExample ==
    /\ fn.op = "resolved"
    /\ fn.chapters = ExampleChapters
    /\ fn.query = Cell
    /\ fn.out = Some(ExampleChapters[1])

\* ----------------------------------------------------------------- C19
\* C19: the result is null whenever the query is the empty string or the
\* list of candidates is empty, whatever the other argument is.
C19_EmptyGivesNull ==
    (fn.op = "resolved" /\ (fn.query = <<>> \/ fn.chapters = <<>>)) => fn.out = Null

\* the empty query has been resolved against a list of two names
C19_Witness ==
    /\ fn.op = "resolved"
    /\ fn.query = <<>>
    /\ Len(fn.chapters) = 2
    /\ fn.out = Null

\* a query has been resolved against the empty list
C19_WitnessEmptyList ==
    /\ fn.op = "resolved"
    /\ fn.query # <<>>
    /\ fn.chapters = <<>>
    /\ fn.out = Null

\* ----------------------------------------------------------------- C20
\* C20: getSimilarityScore(a, b) = getSimilarityScore(b, a).
C20_ScoreSymmetric ==
    fn.op = "scored" => fn.score = getSimilarityScore(fn.b, fn.a)

\* two strings of different lengths with a positive similarity below 1
C20_Witness ==
    /\ fn.op = "scored"
    /\ Len(fn.a) < Len(fn.b)
    /\ fn.score.num > 0
    /\ fn.score.num < fn.score.den

\* ----------------------------------------------------------------- C21
\* C21: a pass of the snapshot callback leaves alone every chat that has an
\* armed interval of the cadence the snapshot holds for it: the chat keeps
\* the same interval handle, still armed, and no sendRandomQuestion is started
\* for it.
C21_PassKeepsLiveIntervals ==
    [][aev'.op = "pass" =>
         \A c \in AChats :
             LET id == quizIntervals[c] IN
             (id # 0 /\ groups[c] > 0 /\ autoTimers[id].mins = groups[c]) =>
                 /\ quizIntervals'[c] = id
                 /\ autoTimers'[id] = autoTimers[id]
                 /\ CopiesIn(ATask("rq", c, "fetch", 0), atasks')
                      = CopiesIn(ATask("rq", c, "fetch", 0), atasks) ]_vars

\* ----------------------------------------------------------------- C22
\* a quiz has just been sent to chat c (sendPoll has returned)
QuizSent(c) == qtasks[c] = "set"

\* C22: every chat with a stored intervalMinutes is sent a quiz again and
\* again, whatever is sent to the other chats.
C22_EveryStoredChatIsSent ==
    \A c \in QChats : (quiztime[c] > 0) ~> QuizSent(c)

\* the part of C22 about the other chats' intervals: the callback that runs
\* after a quiz was sent leaves the remaining time of an armed interval of the
\* stored period as it is
C22_SendDoesNotRearm ==
    [][(qpending /\ ~qpending') =>
          \A c \in QChats :
              (activeIntervals[c].armed /\ activeIntervals[c].mins = quiztime[c])
                  => activeIntervals'[c] = activeIntervals[c] ]_vars

\* ----------------------------------------------------------------- C23
\* C23: a countdown tick happens only while time remains; it takes one second
\* off, and then edits the message to the terminal text when nothing remains
\* and to the new remaining value otherwise.  An interval whose time is
\* exhausted fires no more.
C23_TickDecrementsThenStops ==
    [][\A t \in BagToSet(tasks') :
         (t.k = "cd" /\ CopiesIn(t, tasks') > CopiesIn(t, tasks)) =>
             /\ timers[t.i].armed
             /\ timers[t.i].left > 0
             /\ timers'[t.i].left = timers[t.i].left - 1
             /\ t.m = sessions[t.s].timerMessageId
             /\ IF timers'[t.i].left = 0 THEN t.pc = "term"
                ELSE t.pc = "edit" /\ t.q = timers'[t.i].left ]_vars

\* the part of C23 that holds: a tick with time remaining takes one second off
\* and issues the edit that belongs to the new value
C23_TickDecrements ==
    [][\A t \in BagToSet(tasks') :
         (t.k = "cd" /\ CopiesIn(t, tasks') > CopiesIn(t, tasks) /\ timers[t.i].left > 0) =>
             /\ timers'[t.i].left = timers[t.i].left - 1
             /\ t.m = sessions[t.s].timerMessageId
             /\ IF timers'[t.i].left = 0 THEN t.pc = "term"
                ELSE t.pc = "edit" /\ t.q = timers'[t.i].left ]_vars

\* ----------------------------------------------------------------- C24
\* the edit awaited by the countdown tick t has failed in this step: its
\* message did not exist, or it is the first call to fail on an existing target
EditFailed(t) ==
    /\ t.k = "cd"
    /\ CopiesIn(t, tasks') < CopiesIn(t, tasks)
    /\ t.m \notin msgs \/ (~faulty /\ faulty')

\* C24: when an edit of the countdown message fails, the tick interval that
\* issued it is stopped, and the dispatch interval of the session stays as
\* it is.
C24_FailedEditStopsTickOnly ==
    [][\A t \in BagToSet(tasks) :
         EditFailed(t) =>
             /\ ~timers'[t.i].armed
             /\ sessions'[t.s].questionIntervalId = sessions[t.s].questionIntervalId ]_vars

\* the part of C24 that holds: a failed edit leaves the dispatch interval of
\* its session, and the session's place in quizSessions, as they are
C24_FailedEditSparesDispatch ==
    [][\A t \in BagToSet(tasks) :
         EditFailed(t) =>
             /\ sessions'[t.s].questionIntervalId = sessions[t.s].questionIntervalId
             /\ quizSessions' = quizSessions ]_vars

\* ----------------------------------------------------------------- C25
\* the deleteMessage awaited by the stopTimer call t returns or throws
StopTimerReturns(t) ==
    /\ t.pc \in {"del", "c_del", "s_del", "f_del"}
    /\ CopiesIn(t, tasks') < CopiesIn(t, tasks)

\* the caller of stopTimer is at the await that follows it
GoesOn(t) ==
    LET next == CASE t.pc = "del" -> "reply"
                  [] t.pc = "c_del" -> "c_reply"
                  [] t.pc = "f_del" -> "f_reply"
                  [] OTHER -> "none"
    IN next # "none" =>
         \E u \in BagToSet(tasks') :
             /\ u.k = t.k /\ u.s = t.s /\ u.pc = next
             /\ CopiesIn(u, tasks') > CopiesIn(u, tasks)

\* stopQuizSession has, in this step, called stopTimer on a session that had
\* no countdown message (u is at the reply that follows) ...
StoppedWithoutMessage(u) ==
    /\ u.k = "stop" /\ u.pc = "reply" /\ u.del = "none"
    /\ CopiesIn(u, tasks') > CopiesIn(u, tasks)

\* C25: stopTimer raises no error and is idempotent.  Whether its
\* deleteMessage returns or throws (the message is gone already), the
\* session's timerMessageId is null afterwards, nothing else is removed, and
\* the caller goes on; called on a session with no countdown interval and no
\* countdown message it changes no interval and no message and leaves both
\* fields null, and in every case timerIntervalId is null when it yields.
C25_StopTimerIdempotent ==
    [][/\ \A t \in BagToSet(tasks) :
            StopTimerReturns(t) =>
                /\ sessions'[t.s].timerMessageId = 0
                /\ sessions'[t.s].timerIntervalId = sessions[t.s].timerIntervalId
                /\ msgs' \in {msgs, msgs \ {t.m}}
                /\ timers' = timers
                /\ ev'.op # "cmdThrew"
                /\ GoesOn(t)
       /\ \A u \in BagToSet(tasks') :
            StoppedWithoutMessage(u) =>
                /\ sessions'[u.s].timerIntervalId = 0
                /\ sessions'[u.s].timerMessageId = 0
                /\ msgs' = msgs
                /\ u.i = 0 => timers' = timers ]_vars

\* a session whose last tick has stopped its timer is stopped again by the
\* stopQuizSession at the end of that tick: the second stopTimer finds no
\* interval and no message
C25_WitnessStoppedTwice ==
    \E u \in BagToSet(tasks) :
        /\ u.k = "stop" /\ u.pc = "reply" /\ u.del = "none" /\ u.i = 0
        /\ sessions[u.s].completed
        /\ sessions[u.s].timerIntervalId = 0
        /\ sessions[u.s].timerMessageId = 0

\* a stopTimer whose message had been removed by another call: its
\* deleteMessage threw, no call had failed for another reason, and
\* stopQuizSession went on to its reply
C25_WitnessMessageGone ==
    \E u \in BagToSet(tasks) :
        /\ u.k = "stop" /\ u.pc = "reply" /\ u.del = "threw"
        /\ ~faulty

\* ----------------------------------------------------------------- C26
\* the store call awaited by the handler t has thrown in this step: t is
\* over and the handler is not at the reply of its try block
StoreFailed(t) ==
    /\ t.pc \in {"save", "remove"}
    /\ CopiesIn(t, atasks') < CopiesIn(t, atasks)
    /\ ~\E u \in BagToSet(atasks') :
            /\ u.c = t.c /\ u.pc \in {"setreply", "rmreply"}
            /\ CopiesIn(u, atasks') > CopiesIn(u, atasks)

\* the handler of chat c is, after this step, at the reply of its catch block
ErrorReplyBegun(c) ==
    \E u \in BagToSet(atasks') :
        /\ u.c = c /\ u.pc = "errreply"
        /\ CopiesIn(u, atasks') > CopiesIn(u, atasks)

\* C26: when saveGroupSettings or removeGroupSettings throws, the handler
\* leaves every interval as it is, goes on to reply with its error message,
\* and throws nothing.
C26_StoreFailureIsReported ==
    [][\A t \in BagToSet(atasks) :
         StoreFailed(t) =>
             /\ quizIntervals' = quizIntervals
             /\ autoTimers' = autoTimers
             /\ ErrorReplyBegun(t.c)
             /\ aev'.op # "threw" ]_vars

\* the parts of C26 that hold: no interval changes, and /removequiztime
\* goes on to its error reply
C26_StoreFailureKeepsIntervals ==
    [][\A t \in BagToSet(atasks) :
         StoreFailed(t) =>
             /\ quizIntervals' = quizIntervals
             /\ autoTimers' = autoTimers
             /\ groups' = groups
             /\ t.pc = "remove" => ErrorReplyBegun(t.c) /\ aev'.op # "threw" ]_vars

\* ----------------------------------------------------------------- C27
\* the timer table of a process that has just started
TableEmpty ==
    /\ \A c \in AChats : quizIntervals[c] = 0
    /\ \A i \in AIds : autoTimers[i] = NoInterval

\* C27: a snapshot delivered while the timer table is empty arms one
\* interval, of the stored cadence, for every chat whose settings carry a
\* quizInterval, and none for any other chat.
C27_FirstSnapshotArmsStored ==
    [][(aev'.op = "pass" /\ TableEmpty) =>
         /\ \A c \in AChats :
              IF groups[c] > 0
              THEN /\ quizIntervals'[c] # 0
                   /\ autoTimers'[quizIntervals'[c]] = [chat |-> c, mins |-> groups[c]]
              ELSE quizIntervals'[c] = 0
         /\ \A i \in AIds :
              autoTimers'[i] # NoInterval =>
                  quizIntervals'[autoTimers'[i].chat] = i ]_vars

\* the first pass has found a cadence for one chat and none for another
C27_Witness ==
    /\ aev.op = "pass"
    /\ \A c \in AChats : aev.prev[c] = 0
    /\ \E c, d \in AChats :
          /\ aev.snap[c] > 0 /\ quizIntervals[c] # 0
          /\ aev.snap[d] = 0 /\ quizIntervals[d] = 0

\* ... and a cadence for every chat
C27_WitnessAll ==
    /\ aev.op = "pass"
    /\ \A c \in AChats : aev.prev[c] = 0 /\ aev.snap[c] > 0 /\ quizIntervals[c] # 0

\* ----------------------------------------------------------------- C28
\* Two chats.  quizSessions has an entry per chat; every session, interval,
\* message and suspended call belongs to the chat whose handler made it.
NumIsoChats == 2

\* questions per session in SpecIso
MaxIsoQuestions == 3

\* quizzes started per chat in a behaviour of SpecIso
MaxIsoStarts == 1

IsoChats == 1..NumIsoChats

\* selected.length in SpecIso: nothing to send, or a quiz with a countdown;
\* the quiz of chat 1 is long enough for every branch of startTimer, the
\* quizzes of the other chats are one question shorter
IsoCounts(c) == {0, IF c = 1 THEN MaxIsoQuestions ELSE MaxIsoQuestions - 1}

\* a /chapter or /pyq of chat c gets as far as startQuizSession
IsoStart(c, n) ==
    /\ Cardinality({s \in 1..Len(sessions) : sessions[s].chat = c}) < MaxIsoStarts
    /\ StartQuizSession(c, n)

InitIso ==
    /\ InitAuto
    /\ InitQuizTimeIdle
    /\ InitRepeatIdle
    /\ InitSubmitIdle
    /\ fn = NoFn
    /\ sessions = <<>>
    /\ quizSessions = [c \in IsoChats |-> 0]
    /\ timers = [i \in Ids |-> NoTimer]
    /\ msgs = {}
    /\ tasks = EmptyBag
    /\ faulty = FALSE
    /\ ev = NoEv

NextIso ==
    \/ \E c \in IsoChats : \E n \in IsoCounts(c) : IsoStart(c, n)
    \/ \E c \in IsoChats : StopCommand(c)
    \/ \E s \in 1..Len(sessions) : QuestionIntervalFires(s)
    \/ \E i \in Ids : TimerIntervalFires(i)
    \/ \E t \in BagToSet(tasks), ok \in BOOLEAN : SendQuestionReturns(t, ok)
    \/ \E t \in BagToSet(tasks), ok \in BOOLEAN : StartTimerDeleteReturns(t, ok)
    \/ \E t \in BagToSet(tasks), ok \in BOOLEAN : StartTimerReplyReturns(t, ok)
    \/ \E t \in BagToSet(tasks), ok \in BOOLEAN : StopTimerDeleteReturns(t, ok)
    \/ \E t \in BagToSet(tasks), ok \in BOOLEAN : ReplyReturns(t, ok)
    \/ \E t \in BagToSet(tasks), ok \in BOOLEAN : EditReturns(t, ok)

SpecIso == InitIso /\ [][NextIso]_vars

\* the sessions that chat d has started
SessionsOfChat(d) == {s \in 1..Len(sessions) : sessions[s].chat = d}

\* the countdown messages that chat d's sessions or suspended calls name
MessagesOfChat(d) ==
    {m \in msgs :
        \/ \E s \in SessionsOfChat(d) : sessions[s].timerMessageId = m
        \/ \E t \in BagToSet(tasks) : t.c = d /\ t.m = m}

\* everything that belongs to chat d: its quizSessions entry, its sessions
\* (question index, dispatch interval, countdown fields), its countdown
\* intervals, its countdown messages and its suspended calls
ChatView(d) ==
    [entry |-> quizSessions[d],
     sess |-> [s \in SessionsOfChat(d) |-> sessions[s]],
     timers |-> [i \in {j \in Ids : timers[j].armed /\ timers[j].owner \in SessionsOfChat(d)}
                   |-> timers[i]],
     msgs |-> MessagesOfChat(d),
     tasks |-> [t \in {u \in BagToSet(tasks) : u.c = d} |-> CopiesIn(t, tasks)]]

\* C28: every step of the program (a start, a stop, a tick of a dispatch
\* interval or of a countdown, the return of a call one of them awaits) is a
\* step of one chat; what belongs to any other chat is the same after it.
C28_ChatsAreIsolated ==
    [][\E c \in IsoChats :
         \A d \in IsoChats \ {c} : ChatView(d)' = ChatView(d)]_vars

\* no message is left without any chat's reference by another chat's step:
\* the messages present are those of some chat, or orphans that stay
C28_MessagesStay ==
    [][\A m \in msgs \ msgs' : \E t \in BagToSet(tasks) : t.m = m]_vars

\* chat d has stopped its quiz, its countdown interval and message are
\* gone, and the quiz of chat c is running with its countdown armed
C28_Witness ==
    \E c, d \in IsoChats :
        /\ c # d
        /\ \E s \in SessionsOfChat(d) : sessions[s].stopDone
        /\ quizSessions[d] = 0
        /\ quizSessions[c] # 0
        /\ LET s == quizSessions[c] IN
             /\ sessions[s].questionIntervalId = "armed"
             /\ sessions[s].timerIntervalId # 0
             /\ timers[sessions[s].timerIntervalId].armed
             /\ sessions[s].timerMessageId \in msgs
             /\ sessions[s].currentIndex >= 2

\* ----------------------------------------------------------------- C29
\* sendQuestion.  A question is what response.json() has delivered: nothing
\* between fetchQuestions and sendQuestion looks at its fields.  A field
\* that is missing reads as undefined.
Undefined == "undefined"

\* values of question.options[k], of question.correct_option and of
\* question.explanation
OptionValues == {"o", "", Undefined}

CorrectValues == {"A", "B", "C", "D", "E", Undefined}

ExplanationValues == {"why", "", Undefined}

Questions ==
    [options : [{"A", "B", "C", "D"} -> OptionValues],
     correct_option : CorrectValues,
     explanation : ExplanationValues,
     image : BOOLEAN]

\* a value that `||`, `&&` and `if` take for true
Truthy(v) == v \notin {"", Undefined}

\* ['A', 'B', 'C', 'D'].indexOf(x)
indexOf(x) ==
    CASE x = "A" -> 0 [] x = "B" -> 1 [] x = "C" -> 2 [] x = "D" -> 3
      [] OTHER -> -1

NoExplanation == "No explanation provided."

\* the arguments of ctx.sendPoll in sendQuestion
sendQuestion(question) ==
    [options |-> <<question.options["A"], question.options["B"],
                   question.options["C"], question.options["D"]>>,
     correct_option_id |-> indexOf(question.correct_option),
     explanation |-> IF Truthy(question.explanation) THEN question.explanation
                     ELSE NoExplanation]

\* isValidQuestion of src/text/quizes.ts, on the fields above
isValidQuestion(question) ==
    /\ \A k \in {"A", "B", "C", "D"} : Truthy(question.options[k])
    /\ question.correct_option \in {"A", "B", "C", "D"}

NoPoll == [options |-> <<>>, correct_option_id |-> -1, explanation |-> Undefined]

\* startQuizSession has selected its questions; the first is about to be sent
InitPoll ==
    /\ InitAuto
    /\ InitSessions
    /\ InitQuizTimeIdle
    /\ InitRepeatIdle
    /\ InitSubmitIdle
    /\ \E q \in Questions : fn = [op |-> "selected", question |-> q, poll |-> NoPoll]

\* `await sendQuestion(ctx, session.questions[session.currentIndex])` runs
\* to its first await: replyWithPhoto if the question has an image, else
\* sendPoll
SendQuestionBegins ==
    /\ fn.op = "selected"
    /\ fn' = IF fn.question.image THEN [fn EXCEPT !.op = "photo"]
             ELSE [fn EXCEPT !.op = "poll", !.poll = sendQuestion(fn.question)]
    /\ UNCHANGED <<sessionVars, autoVars, quizTimeVars, repeatVars, submitVars>>

\* replyWithPhoto returns, and sendPoll is called, or throws
ReplyWithPhotoReturns(ok) ==
    /\ fn.op = "photo"
    /\ fn' = IF ok THEN [fn EXCEPT !.op = "poll", !.poll = sendQuestion(fn.question)]
             ELSE [fn EXCEPT !.op = "oops"]
    /\ UNCHANGED <<sessionVars, autoVars, quizTimeVars, repeatVars, submitVars>>

\* sendPoll returns or throws (Telegram refuses a poll it cannot show)
PollReturns(ok) ==
    /\ fn.op = "poll"
    /\ fn' = [fn EXCEPT !.op = IF ok THEN "sent" ELSE "oops"]
    /\ UNCHANGED <<sessionVars, autoVars, quizTimeVars, repeatVars, submitVars>>

NextPoll ==
    \/ SendQuestionBegins
    \/ \E ok \in BOOLEAN : ReplyWithPhotoReturns(ok)
    \/ \E ok \in BOOLEAN : PollReturns(ok)

SpecPoll == InitPoll /\ [][NextPoll]_vars

\* sendPoll has been called with fn.poll
Dispatched == fn.op \in {"poll", "sent"} \/ (fn.op = "oops" /\ fn.poll # NoPoll)

\* four non-empty options and a correct index among them
WellFormed(poll) ==
    /\ Len(poll.options) = 4
    /\ \A i \in 1..Len(poll.options) : Truthy(poll.options[i])
    /\ poll.correct_option_id \in 0..3

\* C29: every poll dispatched has four non-empty options, a correct index
\* in 0..3 and the question's explanation or the placeholder; no question
\* with an empty option or a correct_option outside A-D is dispatched.
C29_PollsAreWellFormed ==
    Dispatched =>
        /\ WellFormed(fn.poll)
        /\ fn.poll.explanation = IF Truthy(fn.question.explanation)
                                   THEN fn.question.explanation ELSE NoExplanation
        /\ isValidQuestion(fn.question)

\* the parts of C29 that hold: four options in the order A-D, the
\* explanation or its placeholder, and a well-formed poll for every question
\* that meets the invariant
C29_ValidQuestionsWellFormed ==
    Dispatched =>
        /\ Len(fn.poll.options) = 4
        /\ fn.poll.explanation = IF Truthy(fn.question.explanation)
                                   THEN fn.question.explanation ELSE NoExplanation
        /\ Truthy(fn.poll.explanation)
        /\ isValidQuestion(fn.question) =>
              /\ WellFormed(fn.poll)
              /\ fn.question.options[fn.question.correct_option]
                    = fn.poll.options[fn.poll.correct_option_id + 1]

\* ----------------------------------------------------------------- C30
\* the first candidate that equals the query case-insensitively
FirstExact(chapters, query) ==
    LET hits == {i \in Indices(chapters) : isExact(chapters[i], query)}
    IN chapters[CHOOSE i \in hits : \A j \in hits : i <= j]

C30_ExactScoresHighest ==
    (/\ fn.op = "resolved"
     /\ fn.query # <<>>) =>
        \A i, j \in Indices(fn.chapters) :
            isExact(fn.chapters[i], fn.query) =>
                ~Gt(totalScore(fn.chapters[j], fn.query),
                    totalScore(fn.chapters[i], fn.query))

\* ----------------------------------------------------------------- C31
\* the lists that hold the candidates of l in another order (l among them)
Reorderings(l) ==
    {[i \in 1..Len(l) |-> l[p[i]]] :
        p \in {f \in [1..Len(l) -> 1..Len(l)] :
                  \A i, j \in 1..Len(l) : i # j => f[i] # f[j]}}

\* the candidates that equal the query up to case, and those that contain it
\* or are contained in it
ExactHits(chapters, query) == {i \in Indices(chapters) : isExact(chapters[i], query)}

ContainsHits(chapters, query) == {i \in Indices(chapters) : isContains(chapters[i], query)}

\* the candidates that have the highest score of the list, if that score is
\* above the threshold
TopScorers(chapters, query) ==
    {i \in Indices(chapters) :
        /\ Gt(totalScore(chapters[i], query), Frac(1, 2))
        /\ \A k \in Indices(chapters) :
              ~Gt(totalScore(chapters[k], query), totalScore(chapters[i], query))}

\* several candidates share the highest score
FuzzyTie(chapters, query) == Cardinality(TopScorers(chapters, query)) > 1

\* the tier that decides has more than one candidate to choose from
Tied(chapters, query) ==
    \/ Cardinality(ExactHits(chapters, query)) > 1
    \/ /\ ExactHits(chapters, query) = {}
       /\ Cardinality(ContainsHits(chapters, query)) > 1
    \/ /\ ~exactMatch(chapters, query).found
       /\ ~containsMatch(chapters, query).found
       /\ FuzzyTie(chapters, query)

\* C31: the result is the same for every permutation of the list of
\* candidates.
C31_OrderIndependent ==
    fn.op = "resolved" =>
        \A l \in Reorderings(fn.chapters) :
            findBestMatchingChapter(l, fn.query) = fn.out

\* C31 amended: the result is the same for every permutation of the list,
\* unless several candidates equal the query up to case, or none equals it
\* and several contain it or are contained in it, or neither tier returns a
\* candidate and several share the highest fuzzy score.
C31_OrderIndependentAmended ==
    fn.op = "resolved" =>
        \/ fn.query # <<>> /\ Tied(fn.chapters, fn.query)
        \/ \A l \in Reorderings(fn.chapters) :
               findBestMatchingChapter(l, fn.query) = fn.out

\* a list of two candidates in which the second alone contains the query:
\* it is the result, in this order and in the other
C31_Witness ==
    /\ fn.op = "resolved"
    /\ Len(fn.chapters) = 2
    /\ fn.query # <<>>
    /\ ExactHits(fn.chapters, fn.query) = {}
    /\ ContainsHits(fn.chapters, fn.query) = {2}
    /\ fn.out = Some(fn.chapters[2])
    /\ findBestMatchingChapter(<<fn.chapters[2], fn.chapters[1]>>, fn.query) = fn.out

\* two candidates share the highest fuzzy score
C31_WitnessFuzzyTie ==
    /\ fn.op = "resolved"
    /\ NoExactNoContains(fn.chapters, fn.query)
    /\ FuzzyTie(fn.chapters, fn.query)

\* ----------------------------------------------------------------- C32
RECURSIVE editDistance(_, _)
\* the edit distance of two strings, by its defining recurrence on their
\* last characters: the least number of insertions, deletions and
\* substitutions of one character that turn a into b
editDistance(a, b) ==
    IF Len(a) = 0 THEN Len(b)
    ELSE IF Len(b) = 0 THEN Len(a)
    ELSE LET a1 == SubSeq(a, 1, Len(a) - 1)
             b1 == SubSeq(b, 1, Len(b) - 1)
         IN Min2(Min2(editDistance(a1, b) + 1, editDistance(a, b1) + 1),
                 editDistance(a1, b1) + (IF a[Len(a)] = b[Len(b)] THEN 0 ELSE 1))

\* C32: getSimilarityScore(a, b) is (max - editDistance(a, b)) / max with
\* max the greater of the two lengths, 1 when both strings are empty, and
\* never below 0 or above 1.
C32_ScoreIsNormalisedDistance ==
    fn.op = "scored" =>
        LET max == Max2(Len(fn.a), Len(fn.b)) IN
        /\ fn.score.den > 0
        /\ max > 0 => fn.score.num * max = (max - editDistance(fn.a, fn.b)) * fn.score.den
        /\ max = 0 => fn.score.num = fn.score.den
        /\ fn.score.num >= 0
        /\ fn.score.num <= fn.score.den

\* two strings of different lengths, neither empty, three edits apart
C32_Witness ==
    /\ fn.op = "scored"
    /\ Len(fn.a) = 2
    /\ Len(fn.b) = 3
    /\ editDistance(fn.a, fn.b) = 3
    /\ fn.score = Frac(0, 3)

\* both strings empty
C32_WitnessEmpty ==
    /\ fn.op = "scored"
    /\ fn.a = <<>>
    /\ fn.b = <<>>
    /\ fn.score = Frac(1, 1)

\* ----------------------------------------------------------------- C33
\* C33: the session of every armed dispatch interval is the one that
\* quizSessions holds for its chat (the interval is armed and the session
\* stored in the same run of startQuizSession, so an armed interval belongs
\* to a session that has been registered).
C33_ArmedIsReachable ==
    \A s \in Sessions : Active(s) => quizSessions[sessions[s].chat] = s
\* ------------------------------------------------------------------ C34
\* The session manager with the answers to /stop on record: one chat, and
\* MaxStopSessions quiz commands.
MaxStopSessions == 1

StopStart(c, n) ==
    /\ Len(sessions) < MaxStopSessions
    /\ StartQuizSession(c, n)

\* `await ctx.reply('No active quiz session to stop.')` of /stop returns
StopAnswered(t) ==
    /\ CallReturns(t, TRUE)
    /\ t.pc = "noact"
    /\ Commit(stopMisses(Finish(Cur, t), t))

\* any other awaited ctx.reply(text) returns, or any throws
OtherReplyReturns(t, ok) ==
    /\ t.pc = "noact" => ~ok
    /\ ReplyReturns(t, ok)

NextStop ==
    \/ \E c \in Chats, n \in 0..MaxQuestions : StopStart(c, n)
    \/ \E c \in Chats : StopCommand(c)
    \/ \E s \in 1..Len(sessions) : QuestionIntervalFires(s)
    \/ \E i \in Ids : TimerIntervalFires(i)
    \/ \E t \in BagToSet(tasks), ok \in BOOLEAN : SendQuestionReturns(t, ok)
    \/ \E t \in BagToSet(tasks), ok \in BOOLEAN : StartTimerDeleteReturns(t, ok)
    \/ \E t \in BagToSet(tasks), ok \in BOOLEAN : StartTimerReplyReturns(t, ok)
    \/ \E t \in BagToSet(tasks), ok \in BOOLEAN : StopTimerDeleteReturns(t, ok)
    \/ \E t \in BagToSet(tasks) : StopAnswered(t)
    \/ \E t \in BagToSet(tasks), ok \in BOOLEAN : OtherReplyReturns(t, ok)
    \/ \E t \in BagToSet(tasks), ok \in BOOLEAN : EditReturns(t, ok)

SpecStop == Init /\ [][NextStop]_vars

\* C34: once a /stop of a chat has been answered, with 'Quiz stopped.' or with
\* 'No active quiz session to stop.', no session of that chat begun before
\* that /stop calls sendQuestion again
C34_NoDispatchAfterStop ==
    [][\A t \in BagToSet(tasks') :
          (/\ t.pc = "send"
           /\ t.s \in Sessions
           /\ CopiesIn(t, tasks') > CopiesIn(t, tasks))
          => /\ ~sessions[t.s].stopDone
             /\ ~sessions[t.s].stopMissed]_vars

\* the part of C34 that the code keeps: a session that 'Quiz stopped.' was
\* sent for calls sendQuestion no more
C34_StoppedSessionIsSilent ==
    [][\A t \in BagToSet(tasks') :
          (/\ t.pc = "send"
           /\ t.s \in Sessions
           /\ CopiesIn(t, tasks') > CopiesIn(t, tasks))
          => ~sessions[t.s].stopDone]_vars

\* ------------------------------------------------------------------ C35
\* C35: a startQuizSession that is rejected for its empty selection leaves
\* the Active session of the chat as it was: the quizSessions entry, the
\* question index, the dispatch interval and the countdown
C35_RejectedStartSparesSession ==
    [][\A t \in BagToSet(tasks') :
          (/\ t.k = "start"
           /\ t.pc = "noq"
           /\ CopiesIn(t, tasks') > CopiesIn(t, tasks))
          => \A s \in Sessions :
                (Active(s) /\ quizSessions[t.c] = s)
                => /\ quizSessions' = quizSessions
                   /\ sessions'[s] = sessions[s]
                   /\ timers' = timers]_vars

\* ------------------------------------------------------------------ C36
\* this step is startTimer's `await ctx.reply(...)` of invocation t throwing:
\* t leaves that await and no countdown message has come into being
CountdownSendFailed(t) ==
    /\ t.pc = "ST_reply"
    /\ CopiesIn(t, tasks') < CopiesIn(t, tasks)
    /\ msgs' = msgs

\* C36: when the countdown message cannot be sent, the session goes on: inside
\* startQuizSession the dispatch interval is armed and the session stored all
\* the same, inside an interval tick the interval stays armed, the session
\* stays stored and the tick does not take the path of a failed dispatch
C36_CountdownFailureIsHarmless ==
    [][\A t \in BagToSet(tasks) :
          CountdownSendFailed(t)
          => /\ t.k = "start"
                => /\ sessions'[t.s].questionIntervalId = "armed"
                   /\ quizSessions'[t.c] = t.s
             /\ t.k = "tick"
                => /\ Active(t.s) => sessions'[t.s].questionIntervalId = "armed"
                   /\ quizSessions[t.c] = t.s => quizSessions'[t.c] = t.s
                   /\ \A u \in BagToSet(tasks') :
                         u.s = t.s => u.pc \notin {"f_del", "f_reply"}]_vars

\* ------------------------- questions one at a time (src/text/quizes.ts)
\* A question of the catalogue: its id (0 = the record has none), its text,
\* and valid = isValidQuestion(question).  Ids and texts are strings alike,
\* drawn from 1..MaxKey.
QuestionRecords == [id : 0..MaxKey, text : 1..MaxKey, valid : BOOLEAN]

Catalogues == {S \in SUBSET QuestionRecords : Cardinality(S) \in 1..MaxCatalogue}

NoQuestion == [id |-> 0, text |-> 0, valid |-> FALSE]

\* question.id || question.question
keyOf(q) == IF q.id # 0 THEN q.id ELSE q.text

\* a suspended invocation: k = "rq" (sendRandomQuestion), "chapter" or "pyq"
\* (the command handlers), pc = "fetch" (await fetchQuestions) or "send"
\* (await replyWithPhoto / sendPoll), n = the count asked for, q = the
\* question being sent, rest = the selected questions not sent yet
RTask(k, c, pc, n, q, rest) ==
    [k |-> k, c |-> c, pc |-> pc, n |-> n, q |-> q, rest |-> rest]

RInFlight == BagCardinality(rtasks)

\* validQuestions.filter(q => q.id !== lastQuestion && q.question !== lastQuestion)
availableRandom(valid, last) ==
    IF last # 0 THEN {q \in valid : q.id # last /\ q.text # last} ELSE valid

\* filtered.filter(q => (q.id || q.question) !== lastQuestion)
availableCommand(qs, last) ==
    IF last # 0 THEN {q \in qs : keyOf(q) # last} ELSE qs

\* availableQuestions.sort(() => 0.5 - Math.random()).slice(0, Math.min(count, length)):
\* any min(count, length) of the questions, in any order
Selections(qs, n) ==
    LET m == IF n < Cardinality(qs) THEN n ELSE Cardinality(qs)
    IN {f \in [1..m -> qs] : \A i, j \in 1..m : f[i] = f[j] => i = j}

RECURSIVE skipInvalid(_)
\* /chapter: `if (!isValidQuestion(question)) continue`
skipInvalid(rest) ==
    IF rest = <<>> \/ rest[1].valid THEN rest ELSE skipInvalid(Tail(rest))

\* the `for (const question of selected)` loop up to its next await: the
\* invocation is over when nothing is left, else it sends the next question
nextOfLoop(t, rest) ==
    LET r == IF t.k = "chapter" THEN skipInvalid(rest) ELSE rest
    IN IF r = <<>> THEN EmptyBag
       ELSE SetToBag({[t EXCEPT !.pc = "send", !.q = r[1], !.rest = Tail(r)]})

\* the interval callback of setupAutoQuiz, or setupAutoQuiz itself, calls
\* sendRandomQuestion, which runs up to `await fetchQuestions(subject)`
SendRandomQuestionBegins(c) ==
    /\ RInFlight < MaxRepeatInflight
    /\ rtasks' = rtasks (+) SetToBag({RTask("rq", c, "fetch", 1, NoQuestion, <<>>)})
    /\ UNCHANGED <<catalogue, lastQuestions, lastSent>>
    /\ UNCHANGED <<sessionVars, autoVars, fn, quizTimeVars, submitVars>>

\* /chapter <name> [count] or /pyq [count] arrives; the handler runs up to
\* `await fetchQuestions()`
CommandBegins(c, k, n) ==
    /\ RInFlight < MaxRepeatInflight
    /\ rtasks' = rtasks (+) SetToBag({RTask(k, c, "fetch", n, NoQuestion, <<>>)})
    /\ UNCHANGED <<catalogue, lastQuestions, lastSent>>
    /\ UNCHANGED <<sessionVars, autoVars, fn, quizTimeVars, submitVars>>

\* fetchQuestions returns the catalogue or throws.  sendRandomQuestion picks
\* one available question and records it at once; a command handler selects
\* its questions and begins to send the first
CatalogueReturns(t, ok) ==
    /\ BagIn(t, rtasks)
    /\ t.pc = "fetch"
    /\ LET others == rtasks (-) SetToBag({t})
           last == lastQuestions[t.c]
           valid == {q \in catalogue : q.valid}
       IN IF ~ok
          THEN rtasks' = others /\ UNCHANGED lastQuestions
          ELSE IF t.k = "rq"
          THEN LET avail == availableRandom(valid, last)
               IN IF avail = {}
                  THEN rtasks' = others /\ UNCHANGED lastQuestions
                  ELSE \E q \in avail :
                          /\ lastQuestions' = [lastQuestions EXCEPT ![t.c] = keyOf(q)]
                          /\ rtasks' = others (+) SetToBag({[t EXCEPT !.pc = "send", !.q = q]})
          ELSE LET avail == availableCommand(IF t.k = "pyq" THEN valid ELSE catalogue, last)
               IN /\ UNCHANGED lastQuestions
                  /\ IF avail = {}
                     THEN rtasks' = others
                     ELSE \E sel \in Selections(avail, t.n) :
                             rtasks' = others (+) nextOfLoop(t, sel)
    /\ UNCHANGED <<catalogue, lastSent>>
    /\ UNCHANGED <<sessionVars, autoVars, fn, quizTimeVars, submitVars>>

\* `await ctx.sendPoll(...)` (after the optional replyWithPhoto) returns or
\* throws.  A command handler records the question after the poll is sent and
\* goes on with its loop either way
QuestionSendReturns(t, ok) ==
    /\ BagIn(t, rtasks)
    /\ t.pc = "send"
    /\ LET others == rtasks (-) SetToBag({t})
       IN /\ lastSent' = IF ok
                         THEN [lastSent EXCEPT ![t.c] = [prev |-> @.cur, cur |-> keyOf(t.q)]]
                         ELSE lastSent
          /\ IF t.k = "rq"
             THEN rtasks' = others /\ UNCHANGED lastQuestions
             ELSE /\ rtasks' = others (+) nextOfLoop(t, t.rest)
                  /\ lastQuestions' = IF ok
                                      THEN [lastQuestions EXCEPT ![t.c] = keyOf(t.q)]
                                      ELSE lastQuestions
    /\ UNCHANGED catalogue
    /\ UNCHANGED <<sessionVars, autoVars, fn, quizTimeVars, submitVars>>

InitRepeat ==
    /\ InitAuto
    /\ InitSessions
    /\ InitQuizTimeIdle
    /\ InitSubmitIdle
    /\ fn = NoFn
    /\ catalogue \in Catalogues
    /\ lastQuestions = [c \in RChats |-> 0]
    /\ rtasks = EmptyBag
    /\ lastSent = [c \in RChats |-> NoSent]

NextRepeat ==
    \/ \E c \in RChats : SendRandomQuestionBegins(c)
    \/ \E c \in RChats, k \in {"chapter", "pyq"}, n \in 1..MaxSelect : CommandBegins(c, k, n)
    \/ \E t \in BagToSet(rtasks), ok \in BOOLEAN : CatalogueReturns(t, ok)
    \/ \E t \in BagToSet(rtasks), ok \in BOOLEAN : QuestionSendReturns(t, ok)

SpecRepeat == InitRepeat /\ [][NextRepeat]_vars

\* ------------------------------------------------------------------ C37
\* more than one valid question is available
SeveralValid == Cardinality({keyOf(q) : q \in {x \in catalogue : x.valid}}) > 1

\* C37: when more than one valid question is available, the last two
\* questions delivered to a chat are never the same question, by id or by
\* text when there is no id
C37_NoImmediateRepeat ==
    \A c \in RChats :
        (SeveralValid /\ lastSent[c].prev # 0) => lastSent[c].cur # lastSent[c].prev

\* ------------------------------- question submissions (src/index.ts)
\* An entry of submission.questions: filled = the poll has given it its
\* question text and options (they are '' and [] before), image = it has a
\* questionImage.
Placeholder(image) == [filled |-> FALSE, image |-> image]

\* pendingSubmissions[ctx.from.id] = { subject, chapter, count, questions: [],
\*   expectingImageOrPollForQuestionNumber: 1, ... }
NewSubmission(n) == [count |-> n, questions |-> <<>>, expecting |-> 1]

\* a suspended invocation: k = "add" | "photo" | "poll", pc the call it
\* awaits, n = the count of an /add, s = the submission object it holds,
\* qn = questionNumber, i = the position of its write loop, doc = the
\* questionData handed to addDoc
STask(k, pc, n) ==
    [k |-> k, pc |-> pc, n |-> n, s |-> 0, qn |-> 0, i |-> 0, doc |-> Placeholder(FALSE)]

SInFlight == BagCardinality(stasks)

SEnd(t) == stasks (-) SetToBag({t})

SGoto(t, u) == (stasks (-) SetToBag({t})) (+) SetToBag({u})

\* the /add commands that have not opened their submission yet
AddsUnderWay ==
    LET T == {t \in BagToSet(stasks) : t.k = "add"}
    IN BagCardinality([t \in T |-> CopiesIn(t, stasks)])

\* bot.command(/add.../) with a valid count n: runs up to `await ensureAuth()`
AddCommand(n) ==
    /\ SInFlight < MaxSubmitInflight
    /\ Len(submissions) + AddsUnderWay < MaxAdds
    /\ stasks' = stasks (+) SetToBag({STask("add", "prep", n)})
    /\ sev' = NoSEv
    /\ UNCHANGED <<submissions, pendingSubmissions, store>>
    /\ UNCHANGED <<sessionVars, autoVars, fn, quizTimeVars, repeatVars>>

\* ensureAuth and the chapter lookup of /add return (ok) or one of them
\* throws; on ok the submission is opened
AddPrepReturns(t, ok) ==
    /\ BagIn(t, stasks)
    /\ t.pc = "prep"
    /\ stasks' = SEnd(t)
    /\ sev' = NoSEv
    /\ IF ok
       THEN /\ submissions' = Append(submissions, NewSubmission(t.n))
            /\ pendingSubmissions' = Len(submissions) + 1
       ELSE UNCHANGED <<submissions, pendingSubmissions>>
    /\ UNCHANGED store
    /\ UNCHANGED <<sessionVars, autoVars, fn, quizTimeVars, repeatVars>>

\* a photo (k = "photo") or a poll (k = "poll") of the admin arrives while a
\* submission is pending; the handler runs up to `await ensureAuth()`
MessageArrives(k) ==
    /\ SInFlight < MaxSubmitInflight
    /\ pendingSubmissions # 0
    /\ k = "photo" => submissions[pendingSubmissions].expecting # 0
    /\ stasks' = stasks (+) SetToBag({STask(k, "auth", 0)})
    /\ sev' = NoSEv
    /\ UNCHANGED <<submissions, pendingSubmissions, store>>
    /\ UNCHANGED <<sessionVars, autoVars, fn, quizTimeVars, repeatVars>>

\* the text 'skip' arrives while a submission is pending: an entry without
\* image is pushed and the handler awaits its reply
SkipMessage ==
    /\ pendingSubmissions # 0
    /\ submissions[pendingSubmissions].expecting # 0
    /\ Len(submissions[pendingSubmissions].questions) < MaxPending
    /\ submissions' = [submissions EXCEPT ![pendingSubmissions].questions =
                           Append(@, Placeholder(FALSE))]
    /\ sev' = NoSEv
    /\ UNCHANGED <<pendingSubmissions, stasks, store>>
    /\ UNCHANGED <<sessionVars, autoVars, fn, quizTimeVars, repeatVars>>

\* `await ensureAuth()` of the photo or poll branch returns or throws; then
\* `const submission = pendingSubmissions[chat.id]` is read, which is
\* undefined when the entry has been deleted meanwhile (a TypeError ends the
\* handler), and the poll branch takes questionNumber
EnsureAuthReturns(t, ok) ==
    /\ BagIn(t, stasks)
    /\ t.pc = "auth"
    /\ stasks' = IF ~ok \/ pendingSubmissions = 0 THEN SEnd(t)
                 ELSE LET s == pendingSubmissions IN
                      IF t.k = "photo"
                      THEN SGoto(t, [t EXCEPT !.pc = "upload", !.s = s])
                      ELSE SGoto(t, [t EXCEPT !.pc = "docs", !.s = s,
                                              !.qn = Len(submissions[s].questions) + 1])
    /\ sev' = NoSEv
    /\ UNCHANGED <<submissions, pendingSubmissions, store>>
    /\ UNCHANGED <<sessionVars, autoVars, fn, quizTimeVars, repeatVars>>

\* the chapter lookup and uploadTelegramPhoto of the photo branch return a
\* download URL (ok) or fail: with a URL an entry with the image is pushed
UploadReturns(t, ok) ==
    /\ BagIn(t, stasks)
    /\ t.pc = "upload"
    /\ stasks' = SEnd(t)
    /\ sev' = NoSEv
    /\ IF ok
       THEN /\ Len(submissions[t.s].questions) < MaxPending
            /\ submissions' = [submissions EXCEPT ![t.s].questions =
                                   Append(@, Placeholder(TRUE))]
       ELSE UNCHANGED submissions
    /\ UNCHANGED <<pendingSubmissions, store>>
    /\ UNCHANGED <<sessionVars, autoVars, fn, quizTimeVars, repeatVars>>

\* the poll branch after its chapter lookup, up to its next await: the poll
\* becomes a new entry or fills the entry before questionNumber, or is
\* turned away; then either the next question is asked for or the write loop
\* begins with the first addDoc
pollBranch(t) ==
    LET sub == submissions[t.s]
        qs == sub.questions
        pushed == Append(qs, [filled |-> TRUE, image |-> FALSE])
        filledIn == [qs EXCEPT ![t.qn - 1] = [@ EXCEPT !.filled = TRUE]]
        after(l) ==
            IF Len(l) < sub.count
            THEN [subs |-> [submissions EXCEPT ![t.s].questions = l,
                                               ![t.s].expecting = Len(l) + 1],
                  tasks |-> SEnd(t)]
            ELSE [subs |-> [submissions EXCEPT ![t.s].questions = l],
                  tasks |-> SGoto(t, [t EXCEPT !.pc = "write", !.i = 1, !.doc = l[1]])]
        same == [subs |-> submissions, tasks |-> SEnd(t)]
    IN IF sub.expecting = t.qn
       THEN (IF Len(qs) < MaxPending THEN after(pushed) ELSE same)
       ELSE IF Len(qs) > 0
       THEN (IF t.qn - 1 < 1 THEN same          \* questions[-1] is undefined: TypeError
             ELSE IF ~qs[t.qn - 1].filled THEN after(filledIn)
             ELSE same)
       ELSE same

\* the chapter lookup of the poll branch returns or throws
GetDocsReturns(t, ok) ==
    /\ BagIn(t, stasks)
    /\ t.pc = "docs"
    /\ LET r == pollBranch(t)
       IN IF ok
          THEN submissions' = r.subs /\ stasks' = r.tasks
          ELSE submissions' = submissions /\ stasks' = SEnd(t)
    /\ sev' = NoSEv
    /\ UNCHANGED <<pendingSubmissions, store>>
    /\ UNCHANGED <<sessionVars, autoVars, fn, quizTimeVars, repeatVars>>

\* `await addDoc(...)` of the write loop returns or throws; the loop goes
\* over the list as it is now, and after the last entry awaits the reply
\* 'Successfully added ...'
AddDocReturns(t, ok) ==
    /\ BagIn(t, stasks)
    /\ t.pc = "write"
    /\ LET qs == submissions[t.s].questions
       IN IF ok
          THEN /\ Len(store) < MaxStore
               /\ store' = Append(store, [s |-> t.s, filled |-> t.doc.filled,
                                           image |-> t.doc.image])
               /\ stasks' = IF t.i < Len(qs)
                             THEN SGoto(t, [t EXCEPT !.i = t.i + 1, !.doc = qs[t.i + 1]])
                             ELSE SGoto(t, [t EXCEPT !.pc = "done"])
          ELSE store' = store /\ stasks' = SEnd(t)
    /\ sev' = NoSEv
    /\ UNCHANGED <<submissions, pendingSubmissions>>
    /\ UNCHANGED <<sessionVars, autoVars, fn, quizTimeVars, repeatVars>>

\* `await ctx.reply('Successfully added ...')` returns, and the entry is
\* deleted, or throws into the catch of the write loop
DoneReplyReturns(t, ok) ==
    /\ BagIn(t, stasks)
    /\ t.pc = "done"
    /\ stasks' = SEnd(t)
    /\ IF ok
       THEN pendingSubmissions' = 0 /\ sev' = [op |-> "completed", s |-> t.s]
       ELSE UNCHANGED pendingSubmissions /\ sev' = NoSEv
    /\ UNCHANGED <<submissions, store>>
    /\ UNCHANGED <<sessionVars, autoVars, fn, quizTimeVars, repeatVars>>

InitSubmit ==
    /\ InitAuto
    /\ InitSessions
    /\ InitQuizTimeIdle
    /\ InitRepeatIdle
    /\ InitSubmitIdle
    /\ fn = NoFn

NextSubmit ==
    \/ \E n \in 1..MaxRequested : AddCommand(n)
    \/ \E t \in BagToSet(stasks), ok \in BOOLEAN : AddPrepReturns(t, ok)
    \/ \E k \in {"photo", "poll"} : MessageArrives(k)
    \/ SkipMessage
    \/ \E t \in BagToSet(stasks), ok \in BOOLEAN : EnsureAuthReturns(t, ok)
    \/ \E t \in BagToSet(stasks), ok \in BOOLEAN : UploadReturns(t, ok)
    \/ \E t \in BagToSet(stasks), ok \in BOOLEAN : GetDocsReturns(t, ok)
    \/ \E t \in BagToSet(stasks), ok \in BOOLEAN : AddDocReturns(t, ok)
    \/ \E t \in BagToSet(stasks), ok \in BOOLEAN : DoneReplyReturns(t, ok)

SpecSubmit == InitSubmit /\ [][NextSubmit]_vars

\* ------------------------------------------------------------------ C38
\* the documents written for submission s
WrittenFor(s) == {i \in 1..Len(store) : store[i].s = s}

\* C38: the pending list of a submission never holds more than the count
\* asked for, and when a submission completes exactly that many documents
\* have been written for it, each with its question text and options, and
\* the pending entry is gone
C38_SubmissionHoldsCount ==
    /\ \A s \in 1..Len(submissions) :
          Len(submissions[s].questions) <= submissions[s].count
    /\ sev.op = "completed"
         => /\ Cardinality(WrittenFor(sev.s)) = submissions[sev.s].count
            /\ \A i \in WrittenFor(sev.s) : store[i].filled
            /\ pendingSubmissions = 0

====
